---- MODULE Spec2Model ----
(***************************************************************************)
(* LoRa gateway logger: the ingestion dispatcher of main.py                *)
(* (LoRaGatewayLogger), its two sinks (SQLite store, daily JSON log) and   *)
(* the periodic statistics reporter, as a state machine.                   *)
(*                                                                         *)
(* Encoding.  A topic string is the sequence of its tokens, "/" being the  *)
(* separator token.  A payload is a byte string described by what decoding *)
(* does to it: whether the bytes are UTF-8, whether the text is JSON, and  *)
(* the document the text denotes.  A Python value is a record of its type  *)
(* and its content; a str is the sequence of its tokens.                   *)
(***************************************************************************)
EXTENDS Integers, Sequences, FiniteSets, TLC

\* Messages delivered by the broker in one run.
MaxMsgs == 2
\* Clock ticks per calendar day of the model's clock.
DayLen == 2
\* Segments of the longest topic handed to parse_topic.
MaxSegs == 7
\* Connection attempts the broker answers in one run.
MaxConnects == 4
\* Characters of the longest frame string handed to the frame decoder.
MaxFrameLen == 4

\* UTC+9 in clock ticks: timezone(timedelta(hours=9)), less than a day.
KstOffset == 1

(***************************************************************************)
(* Python values                                                           *)
(***************************************************************************)
\* A value is its type and its content.  A str is a sequence of tokens, one
\* token a character (frame data) or a whole word; a dict is a function on
\* its keys.
None == [t |-> "NoneType", v |-> <<>>]
Str(s) == [t |-> "str", v |-> s]
Integer(n) == [t |-> "int", v |-> n]
Float(literal) == [t |-> "float", v |-> literal]
List(elems) == [t |-> "list", v |-> elems]
Dict(f) == [t |-> "dict", v |-> f]
Bool(b) == [t |-> "bool", v |-> b]

EmptyDict == [k \in {} |-> None]

\* d.get(k) and d.get(k, dflt) of a dict d
Get(d, k) == IF k \in DOMAIN d THEN d[k] ELSE None
GetOr(d, k, dflt) == IF k \in DOMAIN d THEN d[k] ELSE dflt

\* bool(x): None, zero and the empty str, list and dict are false.
Truthy(x) ==
    CASE x.t = "NoneType" -> FALSE
      [] x.t = "int" -> x.v # 0
      [] x.t = "float" -> x.v \notin {"0.0", "-0.0"}
      [] x.t \in {"str", "list"} -> Len(x.v) > 0
      [] x.t = "dict" -> DOMAIN x.v # {}
      [] x.t = "bool" -> x.v
      [] OTHER -> TRUE

\* len(x) is defined for str, list and dict; on the other types it raises
\* TypeError.
HasLen(x) == x.t \in {"str", "list", "dict"}
PyLen(x) == IF x.t = "dict" THEN Cardinality(DOMAIN x.v) ELSE Len(x.v)

\* k in x: a key of a dict, an element of a list, a substring of a str; on
\* the other types it raises TypeError.
HasContains(x) == x.t \in {"str", "list", "dict"}
Contains(x, k) ==
    CASE x.t = "dict" -> k \in DOMAIN x.v
      [] x.t = "list" -> \E i \in 1..Len(x.v) : x.v[i] = Str(<<k>>)
      [] OTHER -> \E i \in 1..Len(x.v) : x.v[i] = k

(***************************************************************************)
(* Topics                                                                  *)
(***************************************************************************)
RECURSIVE Join(_)
Join(segs) ==
    IF Len(segs) = 0 THEN <<>>
    ELSE IF Len(segs) = 1 THEN Head(segs)
    ELSE Head(segs) \o <<"/">> \o Join(Tail(segs))

\* str.split('/'): the maximal separator-free pieces, empty ones included.
RECURSIVE SplitFrom(_, _)
SplitFrom(topic, acc) ==
    IF Len(topic) = 0 THEN <<acc>>
    ELSE IF Head(topic) = "/" THEN <<acc>> \o SplitFrom(Tail(topic), <<>>)
    ELSE SplitFrom(Tail(topic), Append(acc, Head(topic)))

Split(topic) == SplitFrom(topic, <<>>)

W(s) == <<s>>

StdUplinkTopic(app, dev) ==
    Join(<<W("application"), W(app), W("device"), W(dev), W("event"), W("up")>>)
StdJoinTopic(app, dev) ==
    Join(<<W("application"), W(app), W("device"), W(dev), W("event"), W("join")>>)

\* The topics the broker delivers in the model.
Topics ==
    { StdUplinkTopic("a1", "d1"),
      StdJoinTopic("a2", "d2"),
      Join(<<W("application"), W("a1"), W("device"), W("d1"), W("up")>>),
      Join(<<W("application"), W("a2"), W("device"), W("d2"), W("join")>>),
      Join(<<W("application"), W("a1"), W("device"), W("d2"), W("status")>>),
      Join(<<W("application"), W("a2"), W("device"), W("d1")>>),
      Join(<<W("invalid"), W("topic")>>) }

(***************************************************************************)
(* Payloads and documents                                                  *)
(***************************************************************************)
\* The frame of the unit tests: base64 of "TEST".
TestFrame == Str(<<"V", "E", "V", "T", "V", "A", "=", "=">>)

\* The receive-info element of the unit tests, and a second gateway's.
RxTest ==
    Dict( "rssi" :> Integer(-85) @@ "loRaSNR" :> Float("7.2")
       @@ "location" :> Dict( "latitude" :> Float("37.5665")
                           @@ "longitude" :> Float("126.9780") ) )
RxOther ==
    Dict( "rssi" :> Integer(-120) @@ "loRaSNR" :> Float("-3.5")
       @@ "location" :> Dict( "latitude" :> Float("35.1796")
                           @@ "longitude" :> Float("129.0756") ) )
RxJoin == Dict( "rssi" :> Integer(-90) @@ "loRaSNR" :> Float("5.5") )

\* The uplink and join documents of the unit tests.
UplinkDoc ==
    Dict( "rxInfo" :> List(<<RxTest>>)
       @@ "data" :> TestFrame
       @@ "fCnt" :> Integer(42) @@ "fPort" :> Integer(1)
       @@ "devEUI" :> Str(W("0102030405060708"))
       @@ "txInfo" :> Dict("frequency" :> Integer(868100000) @@ "dr" :> Integer(5)) )

JoinDoc ==
    Dict( "devEUI" :> Str(W("0102030405060708"))
       @@ "joinEUI" :> Str(W("0807060504030201"))
       @@ "devAddr" :> Str(W("12345678"))
       @@ "rxInfo" :> List(<<RxJoin>>)
       @@ "txInfo" :> Dict("frequency" :> Integer(868300000) @@ "dr" :> Integer(0)) )

\* A document with no devEUI.
BareDoc == Dict( "devAddr" :> Str(W("12345678")) )

\* A JSON array.
Arr == List(<<>>)

Docs == {UplinkDoc, JoinDoc, BareDoc, Arr}

Bytes(utf8, json, doc) == [utf8 |-> utf8, json |-> json, doc |-> doc]

Payloads ==
    { Bytes(TRUE, TRUE, d) : d \in Docs }
      \cup { Bytes(TRUE, FALSE, Arr), Bytes(FALSE, FALSE, Arr) }

\* json.loads(msg.payload.decode('utf-8')): the document, or the exception raised.
json_loads(p) ==
    IF ~p.utf8 THEN [exc |-> "UnicodeDecodeError"]
    ELSE IF ~p.json THEN [exc |-> "JSONDecodeError"]
    ELSE [exc |-> "", doc |-> p.doc]

(***************************************************************************)
(* Frame decoding: _decode_payload_data                                    *)
(***************************************************************************)
B64Alphabet ==
    << "A", "B", "C", "D", "E", "F", "G", "H", "I", "J", "K", "L", "M",
       "N", "O", "P", "Q", "R", "S", "T", "U", "V", "W", "X", "Y", "Z",
       "a", "b", "c", "d", "e", "f", "g", "h", "i", "j", "k", "l", "m",
       "n", "o", "p", "q", "r", "s", "t", "u", "v", "w", "x", "y", "z",
       "0", "1", "2", "3", "4", "5", "6", "7", "8", "9", "+", "/" >>

IsB64Char(ch) == \E i \in 1..Len(B64Alphabet) : B64Alphabet[i] = ch
B64Value(ch) == (CHOOSE i \in 1..Len(B64Alphabet) : B64Alphabet[i] = ch) - 1

\* The decoder base64.b64decode(data) runs with its default validate=False:
\* characters outside the alphabet are skipped, the first complete padding
\* ends the data, and data that stops inside a quad raises binascii.Error
\* (err is its message; it is "" when nothing was raised).
RECURSIVE a2b_base64(_, _, _, _, _)
a2b_base64(s, quad_pos, leftchar, pads, out) ==
    IF Len(s) = 0
    THEN [ ok |-> quad_pos = 0, bytes |-> out,
           err |-> CASE quad_pos = 0 -> ""
                     [] quad_pos = 1 -> "Invalid base64-encoded string"
                     [] OTHER -> "Incorrect padding" ]
    ELSE LET ch == Head(s) IN
         IF ch = "="
         THEN IF quad_pos >= 2 /\ quad_pos + pads + 1 >= 4
              THEN [ok |-> TRUE, bytes |-> out, err |-> ""]
              ELSE a2b_base64(Tail(s), quad_pos, leftchar, pads + 1, out)
         ELSE IF ~IsB64Char(ch)
         THEN a2b_base64(Tail(s), quad_pos, leftchar, pads, out)
         ELSE LET v == B64Value(ch) IN
              CASE quad_pos = 0 -> a2b_base64(Tail(s), 1, v, 0, out)
                [] quad_pos = 1 ->
                     a2b_base64(Tail(s), 2, v % 16, 0,
                                Append(out, leftchar * 4 + v \div 16))
                [] quad_pos = 2 ->
                     a2b_base64(Tail(s), 3, v % 4, 0,
                                Append(out, leftchar * 16 + v \div 4))
                [] OTHER ->
                     a2b_base64(Tail(s), 0, 0, 0, Append(out, leftchar * 64 + v))

\* base64.b64decode(data): TypeError on anything but a str.
b64decode(data) ==
    IF data.t # "str" THEN [ok |-> FALSE, bytes |-> <<>>, err |-> "TypeError"]
    ELSE a2b_base64(data.v, 0, 0, 0, <<>>)

HexDigits == <<"0", "1", "2", "3", "4", "5", "6", "7",
               "8", "9", "A", "B", "C", "D", "E", "F">>

\* bytes.hex().upper(): two uppercase digits a byte.
RECURSIVE Hex(_)
Hex(bytes) ==
    IF Len(bytes) = 0 THEN <<>>
    ELSE <<HexDigits[(Head(bytes) \div 16) + 1], HexDigits[(Head(bytes) % 16) + 1]>>
           \o Hex(Tail(bytes))

\* bytes.decode('utf-8'): the code points, or UnicodeDecodeError on a byte
\* sequence that is not well-formed UTF-8.
RECURSIVE utf8_decode(_, _)
utf8_decode(bytes, acc) ==
    IF Len(bytes) = 0 THEN [ok |-> TRUE, chars |-> acc]
    ELSE LET b == bytes[1]
             Cont(i, lo, hi) == Len(bytes) >= i /\ bytes[i] >= lo /\ bytes[i] <= hi
             Low(i) == bytes[i] - 128
             Rest(n) == SubSeq(bytes, n + 1, Len(bytes))
             Two == Cont(2, 128, 191)
             Three(lo, hi) == Cont(2, lo, hi) /\ Cont(3, 128, 191)
             Four(lo, hi) == Cont(2, lo, hi) /\ Cont(3, 128, 191) /\ Cont(4, 128, 191)
         IN
         IF b < 128 THEN utf8_decode(Rest(1), Append(acc, b))
         ELSE IF b \in 194..223 /\ Two
         THEN utf8_decode(Rest(2), Append(acc, (b - 192) * 64 + Low(2)))
         ELSE IF \/ b = 224 /\ Three(160, 191)
                 \/ b \in (225..236) \cup (238..239) /\ Three(128, 191)
                 \/ b = 237 /\ Three(128, 159)
         THEN utf8_decode(Rest(3),
                          Append(acc, (b - 224) * 4096 + Low(2) * 64 + Low(3)))
         ELSE IF \/ b = 240 /\ Four(144, 191)
                 \/ b \in 241..243 /\ Four(128, 191)
                 \/ b = 244 /\ Four(128, 143)
         THEN utf8_decode(Rest(4),
                          Append(acc, (b - 240) * 262144 + Low(2) * 4096
                                        + Low(3) * 64 + Low(4)))
         ELSE [ok |-> FALSE, chars |-> acc]

\* The printable ASCII characters, from the space (32) to the tilde (126);
\* the double quote, the backslash and the backtick are spelled out.
Ascii ==
    << " ", "!", "dquote", "#", "$", "%", "&", "'", "(", ")", "*", "+", ",", "-",
       ".", "/", "0", "1", "2", "3", "4", "5", "6", "7", "8", "9", ":", ";",
       "<", "=", ">", "?", "@", "A", "B", "C", "D", "E", "F", "G", "H", "I",
       "J", "K", "L", "M", "N", "O", "P", "Q", "R", "S", "T", "U", "V", "W",
       "X", "Y", "Z", "[", "backslash", "]", "^", "_", "backtick", "a", "b", "c", "d", "e",
       "f", "g", "h", "i", "j", "k", "l", "m", "n", "o", "p", "q", "r", "s",
       "t", "u", "v", "w", "x", "y", "z", "{", "|", "}", "~" >>

\* The token of a character: itself when printable ASCII, else its code point.
Chr(cp) == IF cp \in 32..126 THEN Ascii[cp - 31] ELSE cp

\* str.isprintable() of one character: controls, the no-break space and the
\* soft hyphen are not printable; letters above Latin-1 are taken as printable.
IsPrintable(cp) == cp \in 32..126 \/ (cp > 160 /\ cp # 173)

\* repr(decoded_text): the text in quotes, each unprintable character escaped.
Repr(chars) ==
    <<"'">> \o [i \in 1..Len(chars) |->
                  IF IsPrintable(chars[i]) THEN Chr(chars[i])
                  ELSE <<"escape", chars[i]>>] \o <<"'">>

\* The 'text' entry: the text itself, or one of the two placeholders (named
\* here by what they say).
DecodedText(bytes) ==
    LET decoded_text == utf8_decode(bytes, <<>>) IN
    IF ~decoded_text.ok THEN Str(<<"[text cannot be decoded]">>)
    ELSE IF \A i \in 1..Len(decoded_text.chars) : IsPrintable(decoded_text.chars[i])
    THEN Str([i \in 1..Len(decoded_text.chars) |-> Chr(decoded_text.chars[i])])
    ELSE Str(<<"[contains non-printable characters: ">>
             \o Repr(decoded_text.chars) \o <<"]">>)

\* _decode_payload_data: hex, text and bytes of the decoded frame, or the
\* error marker when anything in the try block raised.
decode_payload_data(data) ==
    LET decoded_bytes == b64decode(data) IN
    IF decoded_bytes.ok
    THEN Dict( "hex" :> Str(Hex(decoded_bytes.bytes))
            @@ "text" :> DecodedText(decoded_bytes.bytes)
            @@ "bytes" :> List([i \in 1..Len(decoded_bytes.bytes) |->
                                  Integer(decoded_bytes.bytes[i])]) )
    ELSE Dict( "error" :> Str(<<"decode error: ", decoded_bytes.err>>)
            @@ "raw" :> data )

(***************************************************************************)
(* Field extraction: the summaries                                         *)
(***************************************************************************)
\* An extraction in progress: the summary so far, and whether an exception
\* has left the try block (the rest of the block is then skipped).
NoSummary == [summary |-> EmptyDict, raised |-> FALSE]
Put(st, fields) == [st EXCEPT !.summary = fields @@ @]
Raise(st) == [st EXCEPT !.raised = TRUE]

\* A receive-info block that reads the last gateway of the list.
RxFields_last(payload, st) ==
    IF st.raised THEN st
    ELSE IF ~HasContains(payload) THEN Raise(st)
    ELSE IF ~Contains(payload, "rxInfo") THEN st
    ELSE IF payload.t # "dict" THEN Raise(st)
    ELSE LET rx == payload.v["rxInfo"] IN
         IF ~HasLen(rx) THEN Raise(st)
         ELSE IF PyLen(rx) = 0 THEN st
         ELSE IF rx.t = "dict" THEN Raise(st)
         ELSE LET rx_info == IF rx.t = "list" THEN rx.v[Len(rx.v)]
                             ELSE Str(<<rx.v[Len(rx.v)]>>)
              IN
              IF rx_info.t # "dict" THEN Raise(st)
              ELSE LET signal == Put(st, "rssi" :> Get(rx_info.v, "rssi")
                                      @@ "snr" :> Get(rx_info.v, "loRaSNR"))
                   IN
                   IF "location" \notin DOMAIN rx_info.v THEN signal
                   ELSE IF rx_info.v["location"].t # "dict" THEN Raise(signal)
                   ELSE Put(signal,
                            "latitude" :> Get(rx_info.v["location"].v, "latitude")
                         @@ "longitude" :> Get(rx_info.v["location"].v, "longitude"))

\* The receive-info block: rssi, snr and the location of payload['rxInfo'][0].
\* 'rxInfo' in payload and len() raise TypeError on a value without them,
\* [0] raises on a dict, .get raises AttributeError on anything but a dict.
RxFields(payload, st) ==
    IF st.raised THEN st
    ELSE IF ~HasContains(payload) THEN Raise(st)
    ELSE IF ~Contains(payload, "rxInfo") THEN st
    ELSE IF payload.t # "dict" THEN Raise(st)
    ELSE LET rx == payload.v["rxInfo"] IN
         IF ~HasLen(rx) THEN Raise(st)
         ELSE IF PyLen(rx) = 0 THEN st
         ELSE IF rx.t = "dict" THEN Raise(st)
         ELSE LET rx_info == IF rx.t = "list" THEN rx.v[1] ELSE Str(<<rx.v[1]>>)
              IN
              IF rx_info.t # "dict" THEN Raise(st)
              ELSE LET signal == Put(st, "rssi" :> Get(rx_info.v, "rssi")
                                      @@ "snr" :> Get(rx_info.v, "loRaSNR"))
                   IN
                   IF "location" \notin DOMAIN rx_info.v THEN signal
                   ELSE IF rx_info.v["location"].t # "dict" THEN Raise(signal)
                   ELSE Put(signal,
                            "latitude" :> Get(rx_info.v["location"].v, "latitude")
                         @@ "longitude" :> Get(rx_info.v["location"].v, "longitude"))

\* The data block: the frame, its decoding and its size in bytes; when the
\* second b64decode raises, half the length of the value, and when the value
\* has no length either the TypeError leaves the block.
DataFields(payload, st) ==
    IF st.raised THEN st
    ELSE IF ~HasContains(payload) THEN Raise(st)
    ELSE IF ~Contains(payload, "data") THEN st
    ELSE IF payload.t # "dict" THEN Raise(st)
    ELSE LET data == payload.v["data"]
             decoded == Put(st, "data" :> data
                             @@ "decoded_data" :> decode_payload_data(data))
         IN
         IF b64decode(data).ok
         THEN Put(decoded, "data_size" :> Integer(Len(b64decode(data).bytes)))
         ELSE IF HasLen(data)
         THEN Put(decoded, "data_size" :> Integer(PyLen(data) \div 2))
         ELSE Raise(decoded)

\* The frame block: payload.get raises AttributeError on anything but a dict.
FrameFields(payload, st) ==
    IF st.raised THEN st
    ELSE IF payload.t # "dict" THEN Raise(st)
    ELSE Put(st, "fCnt" :> Get(payload.v, "fCnt") @@ "fPort" :> Get(payload.v, "fPort")
              @@ "devEUI" :> Get(payload.v, "devEUI"))

\* The transmit-info block.
TxFields(payload, st) ==
    IF st.raised THEN st
    ELSE IF ~HasContains(payload) THEN Raise(st)
    ELSE IF ~Contains(payload, "txInfo") THEN st
    ELSE IF payload.t # "dict" THEN Raise(st)
    ELSE LET tx_info == payload.v["txInfo"] IN
         IF tx_info.t # "dict" THEN Raise(st)
         ELSE Put(st, "frequency" :> Get(tx_info.v, "frequency")
                   @@ "dataRate" :> Get(tx_info.v, "dr"))

\* LoRaGatewayLogger._extract_payload_summary: the four blocks in one try,
\* the summary returned as far as it got.
extract_payload_summary(payload) ==
    TxFields(payload,
        FrameFields(payload,
            DataFields(payload, RxFields(payload, NoSummary)))).summary

\* LoRaMessageParser.extract_uplink_summary: the same four blocks.
extract_uplink_summary(payload) ==
    TxFields(payload,
        FrameFields(payload,
            DataFields(payload, RxFields(payload, NoSummary)))).summary

\* The two operands the other way round: appEUI first.
JoinEUIOf_app_first(f) ==
    IF Truthy(Get(f, "appEUI")) THEN Get(f, "appEUI") ELSE Get(f, "joinEUI")

\* payload.get('joinEUI') or payload.get('appEUI')
JoinEUIOf(f) ==
    IF Truthy(Get(f, "joinEUI")) THEN Get(f, "joinEUI") ELSE Get(f, "appEUI")

\* The device block of the join summary.
DeviceFields(payload, st) ==
    IF st.raised THEN st
    ELSE IF payload.t # "dict" THEN Raise(st)
    ELSE Put(st, "devEUI" :> Get(payload.v, "devEUI")
              @@ "joinEUI" :> JoinEUIOf(payload.v)
              @@ "devAddr" :> Get(payload.v, "devAddr"))

\* _extract_join_summary / extract_join_summary: device, receive-info and
\* transmit-info blocks in one try.
extract_join_summary(payload) ==
    TxFields(payload, RxFields(payload, DeviceFields(payload, NoSummary))).summary

(***************************************************************************)
(* Records: models.py                                                      *)
(***************************************************************************)
Hostname == "gw-host"

\* A datetime: its wall-clock reading and its tzinfo, {} when naive and
\* {offset} when aware.  datetime.now(tz) at instant t reads t + offset.
datetime_now_tz(t, offset) == [wall |-> t + offset, tzinfo |-> {offset}]

\* datetime.now() on a host whose zone is host_offset from UTC.
datetime_now(t, host_offset) == [wall |-> t + host_offset, tzinfo |-> {}]

\* A constructor that stamps datetime.now(timezone.utc).
now_kst_as_utc(t) == datetime_now_tz(t, 0)

\* datetime.now(kst) with kst = timezone(timedelta(hours=9))
now_kst(t) == datetime_now_tz(t, KstOffset)

\* UplinkMessage.from_payload_summary at instant t.  id 0 is the None of a
\* record the store has not numbered yet (row ids start at 1).
UplinkMessage(payload_summary, application_id, device_id, raw_topic, t) ==
    LET decoded_data == GetOr(payload_summary, "decoded_data", Dict(EmptyDict)) IN
    [ id |-> 0, timestamp |-> now_kst(t),
      application_id |-> application_id, device_id |-> device_id,
      dev_eui |-> Get(payload_summary, "devEUI"),
      payload_base64 |-> Get(payload_summary, "data"),
      payload_hex |-> Get(decoded_data.v, "hex"),
      payload_text |-> Get(decoded_data.v, "text"),
      payload_size |-> Get(payload_summary, "data_size"),
      frame_count |-> Get(payload_summary, "fCnt"),
      f_port |-> Get(payload_summary, "fPort"),
      frequency |-> Get(payload_summary, "frequency"),
      data_rate |-> Get(payload_summary, "dataRate"),
      rssi |-> Get(payload_summary, "rssi"), snr |-> Get(payload_summary, "snr"),
      latitude |-> Get(payload_summary, "latitude"),
      longitude |-> Get(payload_summary, "longitude"),
      hostname |-> Hostname, raw_topic |-> raw_topic ]

\* JoinEvent.from_payload_summary at instant t.
JoinEvent(payload_summary, application_id, device_id, raw_topic, t) ==
    [ id |-> 0, timestamp |-> now_kst(t),
      application_id |-> application_id, device_id |-> device_id,
      dev_eui |-> Get(payload_summary, "devEUI"),
      join_eui |-> Get(payload_summary, "joinEUI"),
      dev_addr |-> Get(payload_summary, "devAddr"),
      frequency |-> Get(payload_summary, "frequency"),
      data_rate |-> Get(payload_summary, "dataRate"),
      rssi |-> Get(payload_summary, "rssi"), snr |-> Get(payload_summary, "snr"),
      latitude |-> Get(payload_summary, "latitude"),
      longitude |-> Get(payload_summary, "longitude"),
      hostname |-> Hostname, raw_topic |-> raw_topic ]

(***************************************************************************)
(* State                                                                   *)
(***************************************************************************)
VARIABLES
    feed,               \* the messages the broker has for this client
    db_enabled,         \* self.db is not None
    stats,              \* self.stats, the seven counters
    last_message_time,  \* self.stats['last_message_time'], 0 for None
    uplink_messages,    \* rows of the uplink_messages table
    join_events,        \* rows of the join_events table
    files,              \* the daily log files: name -> content
    now,                \* the clock
    msgs,               \* messages delivered so far
    pc,                 \* the dispatcher thread's position
    cur,                \* the message being dispatched, or the last one
    pre,                \* counters and sinks when its dispatch began
    handed,             \* records handed to the log sink during its dispatch
    result,             \* how its two sink writes ended
    rpc,                \* the reporter thread's position in print_stats
    snap,               \* what print_stats has read so far; with rpc = 0,
                        \* the line it logged last
    utc_offset,         \* the host's time zone, as its offset from UTC
    client,             \* the MQTT client: connection, subscriptions, and
                        \* what each on_connect call did
    call,               \* a call of a parser or model function: name, argument
    ret                 \* and what it returned

vars == << feed, db_enabled, stats, last_message_time, uplink_messages,
           join_events, files, now, msgs, pc, cur, pre, handed, result, rpc,
           snap, utc_offset, client, call, ret >>

\* The dispatcher's record of the message in hand.
dispatch == << cur, pre, handed, result >>

sinks == << uplink_messages, join_events, files >>
reporter == << rpc, snap >>
config == << feed, db_enabled, utc_offset >>
library == << call, ret >>

Counters == { "messages_received", "messages_processed", "joins_received",
              "joins_processed", "sqlite_saves", "json_saves", "errors" }

ZeroStats == [c \in Counters |-> 0]

NoResult == [store |-> "none", log |-> "none"]

NoMsg == [ topic |-> <<>>, payload |-> Bytes(FALSE, FALSE, Arr), route |-> "none",
           level |-> "none",
           application_id |-> <<>>, device_id |-> <<>>,
           summary |-> EmptyDict, log_data |-> EmptyDict ]

Snapshot == [ stats |-> stats, last_message_time |-> last_message_time,
              uplink_messages |-> uplink_messages, join_events |-> join_events,
              files |-> files ]

\* Every message of the model, and one message for each way on_message can go.
AllMessages == { [topic |-> t, payload |-> p] : t \in Topics, p \in Payloads }

SampleMessages ==
    { [topic |-> Join(<<W("application"), W("a1"), W("device"), W("d1"), W("up")>>),
       payload |-> Bytes(TRUE, TRUE, UplinkDoc)],
      [topic |-> Join(<<W("application"), W("a2"), W("device"), W("d2"), W("join")>>),
       payload |-> Bytes(TRUE, TRUE, JoinDoc)],
      [topic |-> StdUplinkTopic("a1", "d1"), payload |-> Bytes(TRUE, TRUE, UplinkDoc)],
      [topic |-> StdUplinkTopic("a1", "d1"), payload |-> Bytes(TRUE, FALSE, Arr)],
      [topic |-> StdJoinTopic("a2", "d2"), payload |-> Bytes(FALSE, FALSE, Arr)],
      [topic |-> Join(<<W("invalid"), W("topic")>>),
       payload |-> Bytes(TRUE, TRUE, UplinkDoc)] }

\* The two topic filters of __init__.
uplink_topic_pattern == StdUplinkTopic("+", "+")
join_topic_pattern == StdJoinTopic("+", "+")

\* The client before its first connection, and connected with both filters.
NoClient == [connected |-> FALSE, subscriptions |-> {}, calls |-> <<>>]
Subscribed ==
    [ connected |-> TRUE,
      subscriptions |-> {uplink_topic_pattern, join_topic_pattern},
      calls |-> << [ rc |-> 0,
                     subscribe |-> <<uplink_topic_pattern, join_topic_pattern>>,
                     level |-> "info" ] >> ]

NoCall == [fn |-> "none", arg |-> None]
NoRet == [done |-> FALSE, value |-> None]

\* Hosts of the model: one on UTC, one on Korean time.
HostOffsets == {0, KstOffset}

Start ==
    /\ db_enabled \in BOOLEAN
    /\ stats = ZeroStats
    /\ last_message_time = 0
    /\ uplink_messages = <<>>
    /\ join_events = <<>>
    /\ files = EmptyDict
    /\ now = 0
    /\ msgs = 0
    /\ pc = "idle"
    /\ cur = NoMsg
    /\ pre = Snapshot
    /\ handed = <<>>
    /\ result = NoResult
    /\ rpc = 0
    /\ snap = ZeroStats
    /\ ret = NoRet

\* The gateway as start() runs it: broker loop and reporter thread.
Init ==
    /\ Start /\ feed = SampleMessages /\ utc_offset = KstOffset
    /\ client = Subscribed /\ call = NoCall

\* The logger object alone, its callbacks driven with every message of the model.
InitDispatch ==
    /\ Start /\ feed = AllMessages /\ utc_offset \in HostOffsets
    /\ client = Subscribed /\ call = NoCall

(***************************************************************************)
(* The dispatcher: LoRaGatewayLogger.on_message and what it calls          *)
(***************************************************************************)
\* topic_parts[4]: Python indexes from 0, TLA+ from 1.
event_type(topic_parts) == topic_parts[5]

\* len(topic_parts) < 5
TooFewParts(topic_parts) == Len(topic_parts) < 5

\* Where on_message takes a message: the early return, one of the two except
\* clauses, one of the two handlers, or the warning of the else branch.
Route(topic, payload) ==
    LET topic_parts == Split(topic) IN
    IF TooFewParts(topic_parts) THEN "bad_topic"
    ELSE IF json_loads(payload).exc = "JSONDecodeError" THEN "json_error"
    ELSE IF json_loads(payload).exc # "" THEN "exception"
    ELSE IF event_type(topic_parts) = W("up") THEN "up"
    ELSE IF event_type(topic_parts) = W("join") THEN "join"
    ELSE "unknown"

Received(kind) == IF kind = "up" THEN "messages_received" ELSE "joins_received"
Processed(kind) == IF kind = "up" THEN "messages_processed" ELSE "joins_processed"

\* A JSONDecodeError clause that logs and forgets to count.
count_json_error_uncounted(s) == s

\* self.stats['errors'] += 1 of the JSONDecodeError clause
count_json_error(s) == [s EXCEPT !["errors"] = @ + 1]
\* An Exception clause that logs and forgets to count.
count_exception_uncounted(s) == s

\* self.stats['errors'] += 1 of the Exception clause
count_exception(s) == [s EXCEPT !["errors"] = @ + 1]
\* A join handler pasted from the uplink handler with the counter's name kept.
count_received_as_uplink(s, kind) == [s EXCEPT !["messages_received"] = @ + 1]

\* self.stats['messages_received'] += 1, self.stats['joins_received'] += 1
count_received(s, kind) == [s EXCEPT ![Received(kind)] = @ + 1]
\* A handler that counts a completed message as an error as well.
count_processed_and_error(s, kind) ==
    [s EXCEPT ![Processed(kind)] = @ + 1, !["errors"] = @ + 1]

\* self.stats['messages_processed'] += 1, self.stats['joins_processed'] += 1
count_processed(s, kind) == [s EXCEPT ![Processed(kind)] = @ + 1]
count_sqlite_save(s) == [s EXCEPT !["sqlite_saves"] = @ + 1]
count_json_save(s) == [s EXCEPT !["json_saves"] = @ + 1]

\* log_data of _handle_uplink_message (raw_payload_size, a function of
\* payload, is left out).
UplinkLogData(topic, application_id, device_id, payload, t) ==
    [ timestamp |-> t, topic |-> topic, application_id |-> application_id,
      device_id |-> device_id, payload |-> payload, hostname |-> Hostname ]

\* The dict save_join_event hands to log_join_event.
JoinLogData(topic, application_id, device_id, join_summary, t) ==
    [ timestamp |-> t, event_type |-> "join", topic |-> topic,
      application_id |-> application_id, device_id |-> device_id,
      join_summary |-> join_summary, hostname |-> Hostname ]

Summary(route, doc) ==
    IF route = "up" THEN extract_payload_summary(doc) ELSE extract_join_summary(doc)

\* An on_message that counts a short topic and an unknown kind as errors.
stats_after_route_strict(s, route) ==
    CASE route \in {"up", "join"} -> count_received(s, route)
      [] route \in {"json_error", "exception", "unknown", "bad_topic"} ->
             [s EXCEPT !["errors"] = @ + 1]
      [] OTHER -> s

\* The counters after on_message has routed the message: the handler's
\* received += 1, the errors += 1 of an except clause, or nothing.
stats_after_route(s, route) ==
    CASE route \in {"up", "join"} -> count_received(s, route)
      [] route = "json_error" -> count_json_error(s)
      [] route = "exception" -> count_exception(s)
      [] OTHER -> s

\* The level of the line on_message logs about the message.
LogLevel(route) ==
    CASE route \in {"bad_topic", "unknown"} -> "warning"
      [] route \in {"json_error", "exception"} -> "error"
      [] OTHER -> "info"

\* on_message up to the first statement that touches a sink: the topic is split
\* and checked, the payload decoded, the handler entered (received counter,
\* last-message time, summary), or the message dropped.
on_message ==
    /\ pc = "idle"
    /\ msgs < MaxMsgs
    /\ \E msg \in feed :
         LET topic == msg.topic
             payload == msg.payload
             route == Route(topic, payload)
             topic_parts == Split(topic)
             parsed == ~TooFewParts(topic_parts)
             application_id == IF parsed THEN topic_parts[2] ELSE <<>>
             device_id == IF parsed THEN topic_parts[4] ELSE <<>>
             handled == route \in {"up", "join"}
             doc == IF handled THEN json_loads(payload).doc ELSE Arr
             summary == IF handled THEN Summary(route, doc) ELSE EmptyDict
         IN
         /\ now' = now + 1
         /\ msgs' = msgs + 1
         /\ pre' = Snapshot
         /\ handed' = <<>>
         /\ result' = NoResult
         /\ cur' = [ topic |-> topic, payload |-> payload, route |-> route,
                     level |-> LogLevel(route),
                     application_id |-> application_id, device_id |-> device_id,
                     summary |-> summary,
                     log_data |-> IF route = "up"
                                  THEN UplinkLogData(topic, application_id, device_id,
                                                     doc,
                                                     datetime_now(now', utc_offset))
                                  ELSE EmptyDict ]
         /\ stats' = stats_after_route(stats, route)
         /\ last_message_time' = IF handled THEN now' ELSE last_message_time
         /\ pc' = IF handled THEN "store" ELSE "idle"
    /\ UNCHANGED << config, client, library, sinks, reporter >>

(***************************************************************************)
(* The structured store: LoRaDatabase                                      *)
(***************************************************************************)
\* What the INSERT can do: succeed, or raise inside insert_*, which logs and
\* returns None.  join_events.dev_eui is NOT NULL, so a join record without
\* a devEUI always fails.
InsertOutcomes(kind, record) ==
    IF kind = "join" /\ record.dev_eui = None THEN {"fail"} ELSE {"ok", "fail"}

\* An insert that finds the record already stored (same fields, whatever the
\* row's id and timestamp) and returns that row's id.
insert_row_dedup(rows, record, outcome) ==
    LET same(i) == [rows[i] EXCEPT !.id = 0, !.timestamp = record.timestamp] = record
    IN
    IF outcome # "ok" THEN [rows |-> rows, id |-> 0]
    ELSE IF \E i \in 1..Len(rows) : same(i)
    THEN [rows |-> rows, id |-> rows[CHOOSE i \in 1..Len(rows) : same(i)].id]
    ELSE [ rows |-> Append(rows, [record EXCEPT !.id = Len(rows) + 1]),
           id |-> Len(rows) + 1 ]

\* insert_uplink_message / insert_join_event: the table afterwards and the
\* row id returned (0 for None).  AUTOINCREMENT numbers each table from 1.
insert_row(rows, record, outcome) ==
    IF outcome = "ok"
    THEN [ rows |-> Append(rows, [record EXCEPT !.id = Len(rows) + 1]),
           id |-> Len(rows) + 1 ]
    ELSE [ rows |-> rows, id |-> 0 ]

\* if message_id: self.stats['sqlite_saves'] += 1
after_insert(s, row_id) == IF row_id # 0 THEN count_sqlite_save(s) ELSE s

StoreRecord(m, t) ==
    IF m.route = "up"
    THEN UplinkMessage(m.summary, m.application_id, m.device_id, m.topic, t)
    ELSE JoinEvent(m.summary, m.application_id, m.device_id, m.topic, t)

\* Step 1 without its try/except: a failed insert raises through the handler
\* into on_message's except clause, and the log append is never reached.
save_to_sqlite_unguarded ==
    /\ pc = "store"
    /\ IF db_enabled
       THEN \E outcome \in InsertOutcomes(cur.route, StoreRecord(cur, now)) :
              LET table == IF cur.route = "up" THEN uplink_messages ELSE join_events
                  res == insert_row(table, StoreRecord(cur, now), outcome)
              IN
              /\ uplink_messages' = IF cur.route = "up" THEN res.rows
                                    ELSE uplink_messages
              /\ join_events' = IF cur.route = "join" THEN res.rows ELSE join_events
              /\ stats' = IF outcome = "ok" THEN after_insert(stats, res.id)
                          ELSE count_exception(stats)
              /\ result' = [result EXCEPT !.store = outcome]
              /\ pc' = IF outcome = "ok" THEN "append" ELSE "idle"
       ELSE /\ result' = [result EXCEPT !.store = "skipped"]
            /\ pc' = "append"
            /\ UNCHANGED << uplink_messages, join_events, stats >>
    /\ UNCHANGED << config, client, library, last_message_time, files, now, msgs, cur, pre,
                    handed, reporter >>

\* Step 1 of save_uplink_data / save_join_event.
save_to_sqlite ==
    /\ pc = "store"
    /\ IF db_enabled
       THEN \E outcome \in InsertOutcomes(cur.route, StoreRecord(cur, now)) :
              LET table == IF cur.route = "up" THEN uplink_messages ELSE join_events
                  res == insert_row(table, StoreRecord(cur, now), outcome)
              IN
              /\ uplink_messages' = IF cur.route = "up" THEN res.rows
                                    ELSE uplink_messages
              /\ join_events' = IF cur.route = "join" THEN res.rows ELSE join_events
              /\ stats' = after_insert(stats, res.id)
              /\ result' = [result EXCEPT !.store = outcome]
       ELSE /\ result' = [result EXCEPT !.store = "skipped"]
            /\ UNCHANGED << uplink_messages, join_events, stats >>
    /\ pc' = "append"
    /\ UNCHANGED << config, client, library, last_message_time, files, now, msgs, cur, pre,
                    handed, reporter >>

(***************************************************************************)
(* The append log: log_uplink_data / log_join_event                        *)
(***************************************************************************)
DayOf(t) == t \div DayLen

\* f"uplink_data_{...}.json" and f"join_events_{...}.json", the date being
\* datetime.now().strftime('%Y%m%d'): the host's calendar day.
LogFilename(kind, t) ==
    [ prefix |-> IF kind = "up" THEN "uplink_data" ELSE "join_events",
      day |-> DayOf(datetime_now(t, utc_offset).wall) ]

\* What the with-block can do.  ok: the record and the newline are written and
\* the file closes.  open_fail: open() raises.  dump_fail: a write of json.dump
\* raises after part of the record went out, and the file closes.  close_fail:
\* both writes were buffered and the close that ends the block raises on the
\* flush, so nothing reaches the file.
AppendOutcomes == {"ok", "open_fail", "dump_fail", "close_fail"}

Line(data) == << [t |-> "rec", data |-> data], [t |-> "nl", data |-> data] >>
Partial(data) == << [t |-> "part", data |-> data] >>

written(content, data, outcome) ==
    CASE outcome = "ok" -> content \o Line(data)
      [] outcome = "dump_fail" -> content \o Partial(data)
      [] OTHER -> content

\* The counter is bumped as the last statement inside the with-block: after
\* both writes returned, before the file is closed.
after_append(s, outcome) ==
    IF outcome \in {"ok", "close_fail"} THEN count_json_save(s) ELSE s

append_file(fs, name, data, outcome) ==
    IF outcome = "open_fail" THEN fs
    ELSE (name :> written(GetOr(fs, name, <<>>), data, outcome)) @@ fs

LogRecord(m, t) ==
    IF m.route = "up" THEN m.log_data
    ELSE JoinLogData(m.topic, m.application_id, m.device_id, m.summary,
                     datetime_now(t, utc_offset))

\* Step 2 of save_uplink_data / save_join_event.
append_log ==
    /\ pc = "append"
    /\ \E outcome \in AppendOutcomes :
         /\ files' = append_file(files, LogFilename(cur.route, now),
                                 LogRecord(cur, now), outcome)
         /\ stats' = after_append(stats, outcome)
         /\ result' = [result EXCEPT !.log = outcome]
    /\ handed' = Append(handed, LogRecord(cur, now))
    /\ pc' = "finish"
    /\ UNCHANGED << config, client, library, last_message_time, uplink_messages, join_events,
                    now, msgs, cur, pre, reporter >>

\* The last statement of _handle_uplink_message / _handle_join_event.
finish_handler ==
    /\ pc = "finish"
    /\ stats' = count_processed(stats, cur.route)
    /\ pc' = "idle"
    /\ UNCHANGED << config, client, library, last_message_time, sinks, now, msgs, dispatch,
                    reporter >>

(***************************************************************************)
(* The statistics reporter: the stats_reporter thread running print_stats  *)
(***************************************************************************)
\* The order in which print_stats evaluates its subscriptions of self.stats:
\* sqlite_info first (only with a store), then the f-string left to right.
ReadOrder == << "sqlite_saves", "messages_received", "messages_processed",
                "joins_received", "joins_processed", "json_saves", "errors" >>

FirstRead == IF db_enabled THEN 1 ELSE 2

\* time.sleep(300) returns and print_stats is entered.
stats_reporter ==
    /\ rpc = 0
    /\ rpc' = FirstRead
    /\ snap' = ZeroStats
    /\ UNCHANGED << config, client, library, stats, last_message_time, sinks, now, msgs, pc,
                    dispatch >>

\* A reporter that reports per interval: it clears a counter once read.
read_counter_and_clear(s, c) == [s EXCEPT ![c] = 0]

\* What one subscription does to the counters: nothing.
read_counter(s, c) == s

\* One subscription self.stats[...] of print_stats; after the last one the
\* line is logged and the thread sleeps again.
print_stats ==
    /\ rpc \in 1..Len(ReadOrder)
    /\ snap' = [snap EXCEPT ![ReadOrder[rpc]] = stats[ReadOrder[rpc]]]
    /\ stats' = read_counter(stats, ReadOrder[rpc])
    /\ rpc' = IF rpc = Len(ReadOrder) THEN 0 ELSE rpc + 1
    /\ UNCHANGED << config, client, library, last_message_time, sinks, now, msgs, pc, dispatch >>

Next ==
    \/ on_message
    \/ save_to_sqlite
    \/ append_log
    \/ finish_handler
    \/ stats_reporter
    \/ print_stats

Spec == Init /\ [][Next]_vars

NextDispatch ==
    \/ on_message
    \/ save_to_sqlite
    \/ append_log
    \/ finish_handler

SpecDispatch == InitDispatch /\ [][NextDispatch]_vars

(***************************************************************************)
(* The broker connection: on_connect / on_disconnect                       *)
(***************************************************************************)
\* The CONNACK return codes: 0 accepted, 1 to 5 refused.
ReturnCodes == 0..5

\* An on_connect that subscribes to the uplink filter only.
subscribe_calls_uplink_only(rc) ==
    IF rc = 0 THEN <<uplink_topic_pattern>> ELSE <<>>

\* The client.subscribe calls of on_connect, in order.
subscribe_calls(rc) ==
    IF rc = 0 THEN <<uplink_topic_pattern, join_topic_pattern>> ELSE <<>>

Range(seq) == {seq[i] : i \in 1..Len(seq)}

\* LoRaGatewayLogger.on_connect and LoRaMQTTClient._on_connect: the network
\* loop calls it with the broker's answer to each connection attempt.
on_connect ==
    /\ ~client.connected
    /\ Len(client.calls) < MaxConnects
    /\ \E rc \in ReturnCodes :
         client' = [ connected |-> rc = 0,
                     subscriptions |-> Range(subscribe_calls(rc)),
                     calls |-> Append(client.calls,
                                      [ rc |-> rc,
                                        subscribe |-> subscribe_calls(rc),
                                        level |-> IF rc = 0 THEN "info"
                                                  ELSE "error" ]) ]
    /\ UNCHANGED << config, library, stats, last_message_time, sinks, now, msgs,
                    pc, dispatch, reporter >>

\* on_disconnect only logs; the connection and, the session being clean,
\* the broker's subscriptions are gone.
on_disconnect ==
    /\ client.connected
    /\ client' = [client EXCEPT !.connected = FALSE, !.subscriptions = {}]
    /\ UNCHANGED << config, library, stats, last_message_time, sinks, now, msgs,
                    pc, dispatch, reporter >>

InitConnect ==
    /\ Start /\ feed = {} /\ utc_offset \in HostOffsets
    /\ client = NoClient /\ call = NoCall

NextConnect ==
    \/ on_connect
    \/ on_disconnect

SpecConnect == InitConnect /\ [][NextConnect]_vars

(***************************************************************************)
(* The broker client's life cycle: LoRaMQTTClient connect, start_loop, stop *)
(***************************************************************************)
\* The largest max_retries connect() is called with.
MaxRetries == 3

\* The object after __init__: self.client is None, nothing called yet.
\* outcomes are the client.connect calls of the connect() in progress or last
\* returned, returned is what that connect() returned, stopped tells whether
\* stop() ran since, and loop what the last start_loop did.
NewClient ==
    [ object |-> FALSE, max_retries |-> 0, outcomes |-> <<>>, returned |-> "none",
      stopped |-> FALSE, loop |-> "off", connects |-> 0 ]

InitLifecycle ==
    /\ Start /\ db_enabled = TRUE /\ feed = {} /\ utc_offset = 0
    /\ client = NewClient /\ call = NoCall

\* What self.client.connect(host, port, 60) can do: return, raise OSError
\* (refused, unreachable, timed out, unknown host), or raise something else
\* (ValueError for an empty host or a port of 0).
AttemptOutcomes == {"ok", "os_error", "error"}

\* A loop that gives up one attempt early.
retry_after_one_less(attempt, max_retries) == attempt < max_retries - 2

\* if attempt < max_retries - 1: warn, sleep 2 s and go round again
retry_after(attempt, max_retries) == attempt < max_retries - 1

\* connect(max_retries) up to the for loop: the paho client is created and
\* bound to self.client, callbacks and credentials are set.  range(0) is
\* empty: the loop is skipped and False returned.
connect ==
    /\ pc = "idle"
    /\ client.loop # "running"
    /\ client.connects < MaxConnects
    /\ \E max_retries \in 0..MaxRetries :
         /\ client' = [ object |-> TRUE, max_retries |-> max_retries,
                        outcomes |-> <<>>,
                        returned |-> IF max_retries = 0 THEN "False" ELSE "none",
                        stopped |-> FALSE, loop |-> "off",
                        connects |-> client.connects + 1 ]
         /\ pc' = IF max_retries = 0 THEN "idle" ELSE "connect"
    /\ UNCHANGED << config, library, stats, last_message_time, sinks, now, msgs,
                    dispatch, reporter >>

\* One round of the for loop.  A success returns True.  An OSError is retried
\* after the sleep or, on the last round, raised again, and the outer except
\* clause, which also gets every other exception, returns False.
connect_attempt ==
    /\ pc = "connect"
    /\ \E outcome \in AttemptOutcomes :
         LET attempt == Len(client.outcomes)
             again == outcome = "os_error" /\ retry_after(attempt, client.max_retries)
         IN
         /\ client' = [ client EXCEPT
                          !.outcomes = Append(@, outcome),
                          !.returned = CASE outcome = "ok" -> "True"
                                         [] again -> "none"
                                         [] OTHER -> "False" ]
         /\ pc' = IF again THEN "connect" ELSE "idle"
    /\ UNCHANGED << config, library, stats, last_message_time, sinks, now, msgs,
                    dispatch, reporter >>

\* start_loop(): loop_forever() if self.client, RuntimeError otherwise.
start_loop ==
    /\ pc = "idle"
    /\ client.loop # "running"
    /\ client' = [client EXCEPT !.loop = IF client.object THEN "running" ELSE "raised"]
    /\ UNCHANGED << config, library, stats, last_message_time, sinks, now, msgs,
                    pc, dispatch, reporter >>

\* stop(): disconnect, which ends a running loop_forever, and self.client =
\* None; nothing when self.client is None already.
stop ==
    /\ pc = "idle"
    /\ client' = [client EXCEPT !.object = FALSE, !.stopped = TRUE, !.loop = "off"]
    /\ UNCHANGED << config, library, stats, last_message_time, sinks, now, msgs,
                    pc, dispatch, reporter >>

NextLifecycle ==
    \/ connect
    \/ connect_attempt
    \/ start_loop
    \/ stop

SpecLifecycle == InitLifecycle /\ [][NextLifecycle]_vars

(***************************************************************************)
(* The parser and the record constructors, called on their own             *)
(***************************************************************************)
Tuple(elems) == [t |-> "tuple", v |-> elems]

\* A parse_topic that reads the event kind where on_message reads it.
parse_topic_kind_at_4(topic) ==
    IF topic.t # "str" THEN None
    ELSE LET topic_parts == Split(topic.v) IN
         IF Len(topic_parts) < 6 THEN None
         ELSE Tuple(<<Str(topic_parts[2]), Str(topic_parts[4]), Str(topic_parts[5])>>)

\* LoRaMessageParser.parse_topic: (application_id, device_id, event_type), or
\* None for a short topic and for an argument whose split raises.
parse_topic(topic) ==
    IF topic.t # "str" THEN None
    ELSE LET topic_parts == Split(topic.v) IN
         IF Len(topic_parts) < 6 THEN None
         ELSE Tuple(<<Str(topic_parts[2]), Str(topic_parts[4]), Str(topic_parts[6])>>)

\* The segments topics are built from, the empty one included.
SegWords == {<<>>, W("application"), W("up"), W("d1")}

TopicInputs ==
    { Str(Join(segs)) : segs \in UNION { [1..n -> SegWords] : n \in 1..MaxSegs } }
      \cup {None, Integer(5)}

\* Documents are built field by field: each key absent, or holding one of a
\* few values, well-formed or not.
Absent == [t |-> "absent", v |-> <<>>]
Opt(values) == values \cup {Absent}
Field(k, x) == IF x.t = "absent" THEN EmptyDict ELSE k :> x

TxTest == Dict("frequency" :> Integer(868100000) @@ "dr" :> Integer(5))

\* Payloads that are no JSON object.
OtherPayloads == {Arr, None, Integer(5), Str(W("rxInfo")), List(<<Str(W("rxInfo"))>>)}

JoinDocInputs ==
    { Dict( Field("devEUI", dev_eui) @@ Field("joinEUI", join_eui)
         @@ Field("appEUI", app_eui) @@ Field("devAddr", dev_addr)
         @@ Field("rxInfo", rx) @@ Field("txInfo", tx) ) :
        dev_eui \in Opt({Str(W("0102030405060708"))}),
        join_eui \in Opt({Str(W("0807060504030201")), Str(<<>>), None, Integer(0),
                          Bool(FALSE)}),
        app_eui \in Opt({Str(W("70B3D57ED0000001"))}),
        dev_addr \in Opt({Str(W("12345678"))}),
        rx \in Opt({List(<<RxJoin>>), List(<<RxJoin, RxOther>>), None}),
        tx \in Opt({TxTest, None}) }
      \cup OtherPayloads

\* A receive-info element whose location is null.
RxNullLocation == Dict("rssi" :> Integer(-85) @@ "location" :> None)

UplinkDocInputs ==
    { Dict( Field("rxInfo", rx) @@ Field("data", data)
         @@ Field("fCnt", f_cnt) @@ Field("fPort", f_cnt)
         @@ Field("devEUI", dev_eui) @@ Field("txInfo", tx) ) :
        rx \in Opt({ List(<<RxTest>>), List(<<RxTest, RxOther>>),
                     List(<<RxOther, RxTest>>), List(<<RxJoin>>),
                     List(<<RxJoin, Integer(1)>>), List(<<RxNullLocation>>),
                     List(<<Integer(1)>>), List(<<>>), Dict(EmptyDict),
                     Str(W("gw")), Integer(5), None }),
        data \in Opt({ TestFrame, Str(<<"!", "!", "!">>), Str(<<"V", "E">>),
                       List(<<>>), Integer(5), None }),
        f_cnt \in Opt({Integer(42)}),
        dev_eui \in Opt({Str(W("0102030405060708"))}),
        tx \in Opt({TxTest, Dict(EmptyDict), Integer(5), None}) }
      \cup OtherPayloads

\* Frame strings: every string of up to MaxFrameLen of these characters, the
\* frames of the tests with and without a stray character, and values that
\* are no str.
FrameChars == {"V", "E", "T", "A", "=", "!"}

FrameInputs ==
    { Str(chars) : chars \in UNION { [1..n -> FrameChars] : n \in 0..MaxFrameLen } }
      \cup { TestFrame, Str(<<"V", "E", "V", "T", "!", "V", "A", "=", "=">>),
             Str(<<"A", "A", "E", "C">>), Str(<<"/", "w", "=", "=">>),
             Integer(5), None, List(<<>>) }

\* Summaries handed to the record constructors: those the extractors return
\* for the documents above, the empty one among them.
UplinkSummaries == { extract_uplink_summary(payload) : payload \in UplinkDocInputs }
JoinSummaries == { extract_join_summary(payload) : payload \in JoinDocInputs }

\* The library waits for its caller.
InitParser ==
    /\ Start /\ feed = {} /\ utc_offset \in HostOffsets /\ client = Subscribed
    /\ \/ \E topic \in TopicInputs : call = [fn |-> "parse_topic", arg |-> topic]
       \/ \E payload \in JoinDocInputs :
            call = [fn |-> "extract_join_summary", arg |-> payload]
       \/ \E payload \in UplinkDocInputs :
            call = [fn |-> "extract_uplink_summary", arg |-> payload]
       \/ \E data \in FrameInputs :
            call = [fn |-> "_decode_payload_data", arg |-> data]
       \/ \E payload_summary \in UplinkSummaries :
            call = [fn |-> "UplinkMessage.from_payload_summary",
                    arg |-> Dict(payload_summary)]
       \/ \E payload_summary \in JoinSummaries :
            call = [fn |-> "JoinEvent.from_payload_summary",
                    arg |-> Dict(payload_summary)]

Returns(value) ==
    /\ ~ret.done
    /\ ret' = [done |-> TRUE, value |-> value]
    /\ UNCHANGED << config, client, call, stats, last_message_time, sinks, now,
                    msgs, pc, dispatch, reporter >>

do_parse_topic == call.fn = "parse_topic" /\ Returns(parse_topic(call.arg))

do_extract_join_summary ==
    call.fn = "extract_join_summary" /\ Returns(Dict(extract_join_summary(call.arg)))

do_extract_uplink_summary ==
    call.fn = "extract_uplink_summary" /\ Returns(Dict(extract_uplink_summary(call.arg)))

do_decode_payload_data ==
    call.fn = "_decode_payload_data" /\ Returns(decode_payload_data(call.arg))

\* A constructor reads the clock once, at whatever instant it is called.
Constructs(cls) ==
    /\ ~ret.done
    /\ \E t \in 0..DayLen :
         /\ now' = t
         /\ ret' = [ done |-> TRUE,
                     value |-> IF cls = "UplinkMessage"
                               THEN UplinkMessage(call.arg.v, "test-app", "test-device",
                                                  StdUplinkTopic("test-app", "test-device"), t)
                               ELSE JoinEvent(call.arg.v, "test-app", "test-device",
                                              StdJoinTopic("test-app", "test-device"), t) ]
    /\ UNCHANGED << config, client, call, stats, last_message_time, sinks,
                    msgs, pc, dispatch, reporter >>

do_uplink_from_payload_summary ==
    call.fn = "UplinkMessage.from_payload_summary" /\ Constructs("UplinkMessage")

do_join_from_payload_summary ==
    call.fn = "JoinEvent.from_payload_summary" /\ Constructs("JoinEvent")

NextParser ==
    \/ do_parse_topic
    \/ do_extract_join_summary
    \/ do_extract_uplink_summary
    \/ do_decode_payload_data
    \/ do_uplink_from_payload_summary
    \/ do_join_from_payload_summary

SpecParser == InitParser /\ [][NextParser]_vars

(***************************************************************************)
(* The refactored processor: LoRaDataProcessor                             *)
(***************************************************************************)
\* The last instant at which the clock still advances inside a call.
MaxClock == 3

\* The summaries of the processor's unit tests.
TestUplinkSummary ==
    "rssi" :> Integer(-85) @@ "snr" :> Float("7.2")
    @@ "decoded_data" :> Dict( "text" :> Str(<<"T", "E", "S", "T">>)
                            @@ "hex" :> Str(<<"5", "4", "4", "5", "5", "3", "5", "4">>) )
    @@ "fCnt" :> Integer(42)
TestJoinSummary ==
    "devEUI" :> Str(W("0102030405060708")) @@ "devAddr" :> Str(W("12345678"))
    @@ "rssi" :> Integer(-90)

\* A summary no extractor returns: its decoded_data is null.
NullDecodedSummary == "decoded_data" :> None @@ "fCnt" :> Integer(42)

\* What the caller hands to process_uplink_message / process_join_event: the
\* summaries of the tests, those the parser returns for the documents of
\* the dispatcher's model, and one of another make.
ProcessorCalls ==
    { [ kind |-> "up", application_id |-> W("a1"), device_id |-> W(dev),
        topic |-> StdUplinkTopic("a1", dev), summary |-> s ] :
        dev \in {"d1", "d2"},
        s \in {TestUplinkSummary, extract_uplink_summary(UplinkDoc), EmptyDict} }
    \cup
    { [ kind |-> "up", application_id |-> W("a1"), device_id |-> W("d1"),
        topic |-> StdUplinkTopic("a1", "d1"), summary |-> NullDecodedSummary ] }
    \cup
    { [ kind |-> "join", application_id |-> W("a2"), device_id |-> W("d2"),
        topic |-> StdJoinTopic("a2", "d2"), summary |-> s ] :
        s \in {TestJoinSummary, extract_join_summary(JoinDoc),
               extract_join_summary(BareDoc)} }

\* A processor with or without a store (enable_sqlite False, or LoRaDatabase()
\* raised in __init__ and self.db stayed None), on any host.
InitProcessor ==
    /\ Start /\ feed = ProcessorCalls /\ utc_offset \in HostOffsets
    /\ client = NoClient /\ call = NoCall

\* _log_uplink_info evaluates 'text' in decoded_data and 'hex' in
\* decoded_data; _log_join_info only calls get.
log_info_raises(kind, summary) ==
    kind = "up" /\ ~HasContains(GetOr(summary, "decoded_data", Dict(EmptyDict)))

\* log_data of process_uplink_message (raw_payload_size, a function of
\* payload_summary, is left out).
ProcessorLogData(topic, application_id, device_id, payload_summary, t) ==
    [ timestamp |-> t, topic |-> topic, application_id |-> application_id,
      device_id |-> device_id, payload |-> Dict(payload_summary),
      hostname |-> Hostname ]

\* process_uplink_message / process_join_event up to the first statement that
\* touches a sink: the clock is read, the received counter and the
\* last-message time are set, log_data is built and the info lines are logged;
\* an exception there is counted by the except clause and ends the call.
process_message ==
    /\ pc = "idle"
    /\ msgs < MaxMsgs
    /\ \E c \in feed :
         LET raised == log_info_raises(c.kind, c.summary) IN
         /\ now' = now + 1
         /\ msgs' = msgs + 1
         /\ pre' = Snapshot
         /\ handed' = <<>>
         /\ result' = NoResult
         /\ cur' = [ topic |-> c.topic,
                     payload |-> Bytes(TRUE, TRUE, Dict(c.summary)),
                     route |-> c.kind,
                     level |-> IF raised THEN "error" ELSE "info",
                     application_id |-> c.application_id,
                     device_id |-> c.device_id,
                     summary |-> c.summary,
                     log_data |-> IF c.kind = "up"
                                  THEN ProcessorLogData(c.topic, c.application_id,
                                                        c.device_id, c.summary,
                                                        now_kst(now'))
                                  ELSE EmptyDict ]
         /\ stats' = IF raised THEN count_exception(count_received(stats, c.kind))
                     ELSE count_received(stats, c.kind)
         /\ last_message_time' = now'
         /\ pc' = IF raised THEN "idle" ELSE "store"
    /\ UNCHANGED << config, client, library, sinks, reporter >>

\* Time passes between two statements of a call.
tick ==
    /\ pc \in {"store", "append"}
    /\ now < MaxClock
    /\ now' = now + 1
    /\ UNCHANGED << config, client, library, stats, last_message_time, sinks, msgs,
                    pc, dispatch, reporter >>

\* f"uplink_data_{...}.json" and f"join_events_{...}.json", the date being
\* datetime.now(kst).strftime('%Y%m%d'): the calendar day in Korea.
KstLogFilename(kind, t) ==
    [ prefix |-> IF kind = "up" THEN "uplink_data" ELSE "join_events",
      day |-> DayOf(now_kst(t).wall) ]

\* The dict handed to the append: the log_data built when the call began,
\* or the join dict _save_join_event builds just before the append.
ProcessorLogRecord(m, t) ==
    IF m.route = "up" THEN m.log_data
    ELSE JoinLogData(m.topic, m.application_id, m.device_id, m.summary, now_kst(t))

\* A step 2 that is left out when the processor has no store.
log_to_json_with_store_only ==
    /\ pc = "append"
    /\ IF db_enabled
       THEN \E outcome \in AppendOutcomes :
              /\ files' = append_file(files, KstLogFilename(cur.route, now),
                                      ProcessorLogRecord(cur, now), outcome)
              /\ stats' = after_append(stats, outcome)
              /\ result' = [result EXCEPT !.log = outcome]
              /\ handed' = Append(handed, ProcessorLogRecord(cur, now))
       ELSE UNCHANGED << files, stats, result, handed >>
    /\ pc' = "finish"
    /\ UNCHANGED << config, client, library, last_message_time, uplink_messages,
                    join_events, now, msgs, cur, pre, reporter >>

\* Step 2 of _save_uplink_data / _save_join_event.
log_to_json ==
    /\ pc = "append"
    /\ \E outcome \in AppendOutcomes :
         /\ files' = append_file(files, KstLogFilename(cur.route, now),
                                 ProcessorLogRecord(cur, now), outcome)
         /\ stats' = after_append(stats, outcome)
         /\ result' = [result EXCEPT !.log = outcome]
    /\ handed' = Append(handed, ProcessorLogRecord(cur, now))
    /\ pc' = "finish"
    /\ UNCHANGED << config, client, library, last_message_time, uplink_messages,
                    join_events, now, msgs, cur, pre, reporter >>

\* Step 1 (save_to_sqlite) and the processed counter (finish_handler) are
\* the statements of the legacy handlers, copied into the processor.
NextProcessor ==
    \/ process_message
    \/ tick
    \/ save_to_sqlite
    \/ log_to_json
    \/ finish_handler

SpecProcessor == InitProcessor /\ [][NextProcessor]_vars

(***************************************************************************)
(* The store's interface: LoRaDatabase inserts and queries                 *)
(***************************************************************************)
\* Rows the uplink table holds at most, and the largest LIMIT asked for.
MaxRows == 3
MaxLimit == 3

\* datetime.isoformat(): the wall-clock digits, then the UTC offset of an
\* aware datetime (nothing for a naive one).  The digits have a fixed width,
\* so texts compare as their digits do, and an equal text without offset
\* comes before one with an offset.
isoformat(ts) ==
    [ digits |-> ts.wall,
      suffix |-> IF ts.tzinfo = {} THEN 0 ELSE 1 + (CHOOSE o \in ts.tzinfo : TRUE) ]

\* datetime.fromisoformat()
fromisoformat(text) ==
    [ wall |-> text.digits,
      tzinfo |-> IF text.suffix = 0 THEN {} ELSE {text.suffix - 1} ]

\* The BINARY collation on two such texts.
TextLess(a, b) ==
    \/ a.digits < b.digits
    \/ a.digits = b.digits /\ a.suffix < b.suffix

\* The values sqlite3 binds to a parameter.
Binds(value) == value.t \in {"NoneType", "int", "float", "str", "bool"}

\* UplinkMessage(timestamp=..., application_id='test-app', device_id=...,
\* payload_text=..., frame_count=...) as the tests construct it.
Message(timestamp, device_id, payload_text, frame_count) ==
    [ UplinkMessage(EmptyDict, W("test-app"), W(device_id), <<>>, 0)
        EXCEPT !.timestamp = timestamp, !.payload_text = payload_text,
               !.frame_count = frame_count ]

\* The messages handed to insert_uplink_message: of one device, stamped
\* datetime.now() on some host or datetime.now(kst), at two instants; of a
\* second device, with and without text and frame count; and one whose frame
\* count is of no type the store accepts.
StoreMessages ==
    { Message(ts, "d1", Str(W("Hello World")), Integer(123)) :
        ts \in { datetime_now(t, 0) : t \in 1..2 } \cup { now_kst(t) : t \in 1..2 } }
    \cup { Message(datetime_now(1, 0), "d2", Str(W("Message 1")), Integer(1)),
           Message(datetime_now(2, 0), "d2", None, None),
           Message(datetime_now(2, 0), "d1", Str(W("Hello World")),
                   List(<<Integer(1)>>)) }

\* The arguments of the queries; no row is of the second of the devices.
Limits == 0..MaxLimit
Devices == {W("d1"), W("d3")}

\* The store alone, empty, driven through its interface.
InitStore ==
    /\ Start /\ db_enabled = TRUE /\ feed = StoreMessages /\ utc_offset = 0
    /\ client = NoClient /\ call = NoCall

\* What the with-block of an insert can do: the statement binds and runs,
\* or something in it raises (a value that does not bind, a locked or
\* unwritable database file).
StoreInsertOutcomes(message) ==
    IF Binds(message.payload_text) /\ Binds(message.frame_count)
    THEN {"ok", "fail"} ELSE {"fail"}

\* insert_uplink_message(message): the row id, or None after an exception
\* that is logged.
do_insert_uplink_message ==
    /\ Len(uplink_messages) < MaxRows
    /\ \E message \in feed : \E outcome \in StoreInsertOutcomes(message) :
         LET res == insert_row(uplink_messages, message, outcome) IN
         /\ uplink_messages' = res.rows
         /\ call' = [fn |-> "insert_uplink_message", arg |-> message]
         /\ ret' = [ done |-> TRUE,
                     value |-> IF res.id = 0 THEN None ELSE Integer(res.id),
                     logged |-> IF outcome = "ok" THEN "debug" ELSE "error" ]
    /\ pre' = Snapshot
    /\ UNCHANGED << config, client, stats, last_message_time, join_events, files,
                    now, msgs, pc, cur, handed, result, reporter >>

\* A _row_to_message that leaves the id to the dataclass's default.
row_to_message_unnumbered(row) ==
    [row EXCEPT !.id = 0, !.timestamp = fromisoformat(isoformat(row.timestamp))]

\* _row_to_message: the row as an UplinkMessage, its timestamp parsed back.
row_to_message(row) ==
    [row EXCEPT !.timestamp = fromisoformat(isoformat(row.timestamp))]

\* An ORDER BY timestamp ASC.
OrderedBefore_ascending(a, b) ==
    ~TextLess(isoformat(b.timestamp), isoformat(a.timestamp))

\* ORDER BY timestamp DESC: row a may come before row b.  The order of rows
\* with equal timestamps is not defined.
OrderedBefore(a, b) ==
    ~TextLess(isoformat(a.timestamp), isoformat(b.timestamp))

\* SELECT * FROM uplink_messages [WHERE device_id = ?] ORDER BY timestamp
\* DESC LIMIT ?: every answer the statement can give.  A negative LIMIT is no
\* limit.
Select(rows, matches, limit) ==
    LET n == Cardinality(matches)
        k == IF limit < 0 \/ limit > n THEN n ELSE limit
    IN  { [i \in 1..k |-> row_to_message(rows[r[i]])] :
            r \in { s \in [1..k -> matches] :
                      /\ \A i, j \in 1..k : i < j =>
                           /\ s[i] # s[j]
                           /\ OrderedBefore(rows[s[i]], rows[s[j]])
                      /\ \A m \in matches :
                           (\A i \in 1..k : s[i] # m) =>
                              \A i \in 1..k : OrderedBefore(rows[s[i]], rows[m]) } }

\* What a query can do: answer, or raise and return [].
Queried(fn, arg, matches) ==
    /\ call' = [fn |-> fn, arg |-> arg]
    /\ \/ \E answer \in Select(uplink_messages, matches, arg.limit) :
            ret' = [done |-> TRUE, value |-> answer, logged |-> "none"]
       \/ ret' = [done |-> TRUE, value |-> <<>>, logged |-> "error"]
    /\ pre' = Snapshot
    /\ UNCHANGED << config, client, stats, last_message_time, sinks, now, msgs,
                    pc, cur, handed, result, reporter >>

\* get_recent_messages(limit)
do_get_recent_messages ==
    \E limit \in Limits :
        Queried("get_recent_messages", [limit |-> limit],
                1..Len(uplink_messages))

\* get_device_messages(device_id, limit)
do_get_device_messages ==
    \E device_id \in Devices, limit \in Limits :
        Queried("get_device_messages", [device_id |-> device_id, limit |-> limit],
                { i \in 1..Len(uplink_messages) :
                    uplink_messages[i].device_id = device_id })

NextStore ==
    \/ do_insert_uplink_message
    \/ do_get_recent_messages
    \/ do_get_device_messages

SpecStore == InitStore /\ [][NextStore]_vars

(***************************************************************************)
(* Properties                                                              *)
(***************************************************************************)
Parts == Split(cur.topic)
Dispatched == cur.route # "none"
Returned == Dispatched /\ pc = "idle"
ValidJson == cur.payload.utf8 /\ cur.payload.json
JsonObject == ValidJson /\ cur.payload.doc.t = "dict"

SinksUntouched ==
    /\ uplink_messages = pre.uplink_messages
    /\ join_events = pre.join_events
    /\ files = pre.files
    /\ handed = <<>>

Plus(s, c) == [s EXCEPT ![c] = @ + 1]

\* application/<app>/device/<dev>/event/up
IsStdUplinkTopic ==
    /\ Len(Parts) = 6
    /\ Parts[1] = W("application") /\ Parts[3] = W("device")
    /\ Parts[5] = W("event") /\ Parts[6] = W("up")

\* C1: a message on application/<app>/device/<dev>/event/up with a JSON object
\* as payload is handled as an uplink: once on_message has returned, the log
\* sink was handed exactly one record, carrying <app>, <dev> and the topic, and
\* messages_received and messages_processed are each one higher than before.
C1_StdUplinkIsLogged ==
    (Returned /\ IsStdUplinkTopic /\ JsonObject) =>
        /\ cur.route = "up"
        /\ Len(handed) = 1
        /\ handed[1].application_id = Parts[2]
        /\ handed[1].device_id = Parts[4]
        /\ handed[1].topic = cur.topic
        /\ stats["messages_received"] = pre.stats["messages_received"] + 1
        /\ stats["messages_processed"] = pre.stats["messages_processed"] + 1

\* C2: a message whose topic has enough parts and whose payload is not valid
\* JSON costs exactly one error: on_message logs at error level and returns,
\* errors is one higher, every other counter and both sinks are as before.
C2_InvalidJsonCountsOneError ==
    (Dispatched /\ Len(Parts) >= 5 /\ ~ValidJson) =>
        /\ pc = "idle"
        /\ cur.level = "error"
        /\ stats = Plus(pre.stats, "errors")
        /\ SinksUntouched

C2_Witness ==
    /\ Returned /\ Len(Parts) >= 5
    /\ cur.payload.utf8 /\ ~cur.payload.json
    /\ stats["errors"] = 2

Handled == cur.route \in {"up", "join"}
Table == IF cur.route = "up" THEN uplink_messages ELSE join_events
PreTable == IF cur.route = "up" THEN pre.uplink_messages ELSE pre.join_events
LogFile == GetOr(files, LogFilename(cur.route, now), <<>>)
PreLogFile == GetOr(pre.files, LogFilename(cur.route, now), <<>>)
LogFailed == result.log \in {"open_fail", "dump_fail", "close_fail"}

\* C3: the two sink writes of a persist are independent.  Whatever the insert
\* did, the log append is attempted once the store step is over; whatever the
\* append did, a row the insert added stays in its table and a failed insert
\* leaves the table as it was; and whatever both did, the handler completes:
\* processed is counted and no error is.
C3_SinkWritesIndependent ==
    Handled =>
        /\ (pc \in {"finish", "idle"} => result.log # "none" /\ Len(handed) = 1)
        /\ (result.store = "ok" =>
               /\ Len(Table) = Len(PreTable) + 1
               /\ Table[Len(Table)].raw_topic = cur.topic
               /\ SubSeq(Table, 1, Len(PreTable)) = PreTable)
        /\ (result.store \in {"fail", "skipped"} => Table = PreTable)
        /\ (result.log = "ok" => LogFile = PreLogFile \o Line(handed[1]))
        /\ (pc = "idle" =>
               /\ stats[Processed(cur.route)] = pre.stats[Processed(cur.route)] + 1
               /\ stats["errors"] = pre.stats["errors"])

\* The four combinations of C3, each after the handler has returned.
C3_Witness == Returned /\ Handled /\ result.store = "fail" /\ result.log = "ok"
C3_StoreOkLogFailed == Returned /\ Handled /\ result.store = "ok" /\ LogFailed
C3_BothOk == Returned /\ Handled /\ result.store = "ok" /\ result.log = "ok"
C3_BothFailed == Returned /\ Handled /\ result.store = "fail" /\ LogFailed

\* C4: when a handler returns, its kind's processed counter is one higher
\* whatever the two writes did, sqlite_saves is one higher exactly if the
\* insert succeeded, and json_saves is one higher exactly if the append
\* succeeded.
C4_CountersFollowOutcomes ==
    (Returned /\ Handled) =>
        /\ stats[Processed(cur.route)] = pre.stats[Processed(cur.route)] + 1
        /\ stats["sqlite_saves"] =
               pre.stats["sqlite_saves"] + (IF result.store = "ok" THEN 1 ELSE 0)
        /\ stats["json_saves"] =
               pre.stats["json_saves"] + (IF result.log = "ok" THEN 1 ELSE 0)

\* C5: no exception leaves on_message.  The dispatcher is only ever idle or
\* inside a handler; a message whose decoding raises an exception that is no
\* JSONDecodeError is dropped with exactly one error counted and nothing else
\* changed; and a handler whose sink writes failed returns without an error
\* counted and without an exception.
C5_ExceptionsAreSwallowed ==
    /\ pc \in {"idle", "store", "append", "finish"}
    /\ (Dispatched /\ Len(Parts) >= 5 /\ ~cur.payload.utf8) =>
           /\ pc = "idle"
           /\ cur.level = "error"
           /\ stats = Plus(pre.stats, "errors")
           /\ last_message_time = pre.last_message_time
           /\ SinksUntouched
    /\ (Returned /\ Handled) => stats["errors"] = pre.stats["errors"]

C5_Witness ==
    /\ Returned /\ Len(Parts) >= 5 /\ ~cur.payload.utf8
    /\ stats["errors"] = 1 /\ msgs = 2

Unchanged(c) == stats[c] = pre.stats[c]

\* C6: a message whose topic has too few parts for on_message (fewer than 5)
\* is logged and dropped whatever its payload: every counter, the
\* last-message time and both sinks are as they were.
C6_ShortTopicTouchesNothing ==
    (Dispatched /\ Len(Parts) < 5) =>
        /\ pc = "idle"
        /\ cur.level = "warning"
        /\ stats = pre.stats
        /\ last_message_time = pre.last_message_time
        /\ SinksUntouched

C6_Witness ==
    /\ Returned /\ Len(Parts) = 4 /\ ~cur.payload.utf8
    /\ pre.stats["messages_processed"] = 1 /\ stats = pre.stats

\* C7: a message whose topic parses, whose payload is valid JSON and whose
\* event-kind part is neither "up" nor "join" is logged and dropped: no
\* counter, no sink and not the last-message time changes.
C7_UnknownKindTouchesNothing ==
    (Dispatched /\ Len(Parts) >= 5 /\ ValidJson
       /\ Parts[5] \notin {W("up"), W("join")}) =>
        /\ pc = "idle"
        /\ cur.level = "warning"
        /\ stats = pre.stats
        /\ last_message_time = pre.last_message_time
        /\ SinksUntouched

C7_Witness ==
    /\ Returned /\ Len(Parts) >= 5 /\ JsonObject /\ Parts[5] = W("status")
    /\ pre.stats["joins_processed"] = 1 /\ stats = pre.stats

\* C8: a message's kind-specific received counter goes up by one, and the
\* last-message time is stamped with the time of arrival, exactly when the
\* topic parsed, the payload decoded and the kind is "up" or "join"; from then
\* on, through the whole handler, the other kind's received and processed
\* counters stay as they were.  Any other message leaves all four counters
\* and the last-message time alone.
C8_ReceivedCountedOncePerKind ==
    Dispatched =>
        IF Len(Parts) >= 5 /\ ValidJson /\ Parts[5] \in {W("up"), W("join")}
        THEN LET kind == IF Parts[5] = W("up") THEN "up" ELSE "join"
                 other == IF Parts[5] = W("up") THEN "join" ELSE "up"
             IN
             /\ stats[Received(kind)] = pre.stats[Received(kind)] + 1
             /\ last_message_time = now
             /\ last_message_time > pre.last_message_time
             /\ Unchanged(Received(other)) /\ Unchanged(Processed(other))
        ELSE /\ Unchanged("messages_received") /\ Unchanged("messages_processed")
             /\ Unchanged("joins_received") /\ Unchanged("joins_processed")
             /\ last_message_time = pre.last_message_time

C8_Witness ==
    /\ pc = "store" /\ cur.route = "join"
    /\ stats["joins_received"] = 1 /\ stats["messages_received"] = 1
    /\ stats["messages_processed"] = 1 /\ last_message_time = 2

\* C9: no step of the dispatcher or of the reporter lowers a counter.
C9_CountersMonotonic ==
    [][\A c \in Counters : stats'[c] >= stats[c]]_vars

C9_Witness ==
    /\ rpc = 0 /\ snap["errors"] = 1 /\ snap["messages_processed"] = 1
    /\ stats["errors"] = 1 /\ stats["messages_processed"] = 1
    /\ stats["sqlite_saves"] = 1 /\ stats["json_saves"] = 1

\* C10: every line print_stats logs shows the counters as they stood together
\* at one instant, so it never shows more messages processed than received,
\* for uplinks or for joins.
C10_ReportedLineConsistent ==
    rpc = 0 =>
        /\ snap["messages_processed"] <= snap["messages_received"]
        /\ snap["joins_processed"] <= snap["joins_received"]

(***************************************************************************)
(* Properties of the parser                                                *)
(***************************************************************************)
\* The segments of a topic, counted from 0 by the separators before them.
SlashesBefore(topic, i) == Cardinality({j \in 1..(i - 1) : topic[j] = "/"})
NSegments(topic) == SlashesBefore(topic, Len(topic) + 1) + 1
Segment(topic, k) ==
    LET at == {i \in 1..Len(topic) : topic[i] # "/" /\ SlashesBefore(topic, i) = k}
    IN  [j \in 1..Cardinality(at) |-> topic[(CHOOSE i \in at : \A h \in at : i <= h) + j - 1]]

Called(fn) == call.fn = fn /\ ret.done

\* C11: parse_topic returns for every argument; for a topic of at least six
\* segments it returns segments 1, 3 and 5 as application id, device id and
\* event kind whatever the segments are, and for a shorter topic None.
C11_ParseTopicTotal ==
    /\ call.fn = "parse_topic" /\ ~ret.done => ENABLED do_parse_topic
    /\ Called("parse_topic") =>
         IF call.arg.t = "str" /\ NSegments(call.arg.v) >= 6
         THEN /\ ret.value.t = "tuple"
              /\ ret.value.v = << Str(Segment(call.arg.v, 1)),
                                  Str(Segment(call.arg.v, 3)),
                                  Str(Segment(call.arg.v, 5)) >>
         ELSE ret.value.t = "NoneType"

\* A seven-segment topic whose wildcard segments are the words "up" and
\* "application" has been parsed.
C11_Witness ==
    /\ Called("parse_topic") /\ call.arg.t = "str"
    /\ NSegments(call.arg.v) = 7
    /\ ret.value.t = "tuple"
    /\ ret.value.v = <<Str(W("up")), Str(W("application")), Str(W("d1"))>>
    /\ Segment(call.arg.v, 4) = W("up")

KstDay(t) == (t + KstOffset) \div DayLen

\* C13: a record appended for an uplink goes to the file uplink_data_<date>
\* and one for a join to join_data_<date>, <date> being the day of the append
\* in UTC+9 whatever the host's zone is.
C13_LogFileNamedByKindAndKstDate ==
    pc = "finish" /\ result.log = "ok" =>
        LET name == [ prefix |-> IF cur.route = "up" THEN "uplink_data"
                                 ELSE "join_data",
                      day |-> KstDay(now) ]
        IN  /\ name \in DOMAIN files
            /\ files[name] = GetOr(pre.files, name, <<>>) \o Line(LogRecord(cur, now))

IdsIncrease(rows) == \A i, j \in 1..Len(rows) : i < j => rows[i].id < rows[j].id
SameFields(r1, r2) == [r1 EXCEPT !.id = 0, !.timestamp = r2.timestamp]
                        = [r2 EXCEPT !.id = 0]
CompleteLines(content) == Cardinality({i \in 1..Len(content) : content[i].t = "nl"})

\* C14: nothing is deduplicated.  Every successful insert adds a row of its
\* own table with an identity above all earlier ones of that table, and
\* leaves the other table as it was; every successful append adds a line,
\* also when the same record was persisted before.
C14_NoDeduplication ==
    /\ IdsIncrease(uplink_messages) /\ IdsIncrease(join_events)
    /\ Len(uplink_messages) + Len(join_events) = stats["sqlite_saves"]
    /\ Handled /\ result.store = "ok" =>
         /\ Len(Table) = Len(PreTable) + 1
         /\ SubSeq(Table, 1, Len(PreTable)) = PreTable
         /\ Table[Len(Table)].id > 0
         /\ \A i \in 1..Len(PreTable) : PreTable[i].id < Table[Len(Table)].id
         /\ cur.route = "up" => join_events = pre.join_events
         /\ cur.route = "join" => uplink_messages = pre.uplink_messages
    /\ Handled /\ result.log = "ok" =>
         CompleteLines(LogFile) = CompleteLines(PreLogFile) + 1

\* The same uplink persisted twice: two rows that differ in identity (and
\* timestamp) only, and two lines.
C14_Witness ==
    /\ pc = "idle" /\ Len(uplink_messages) = 2
    /\ SameFields(uplink_messages[1], uplink_messages[2])
    /\ uplink_messages[1].id # uplink_messages[2].id
    /\ \E name \in DOMAIN files : CompleteLines(files[name]) = 2

\* One row of each kind: each table numbers its rows on its own.
C14_BothKinds ==
    /\ Len(uplink_messages) = 1 /\ Len(join_events) = 1
    /\ uplink_messages[1].id = join_events[1].id

(***************************************************************************)
(* Properties of the extraction                                            *)
(***************************************************************************)
HasKey(doc, k) == doc.t = "dict" /\ k \in DOMAIN doc.v

\* C15: the join summary's joinEUI is the value of the document's joinEUI key
\* whenever the document has that key, and the value of its appEUI key only
\* when it has no joinEUI key.
C15_JoinEUIKeyFirst ==
    Called("extract_join_summary") /\ call.arg.t = "dict" =>
        /\ "joinEUI" \in DOMAIN ret.value.v
        /\ ret.value.v["joinEUI"] = IF HasKey(call.arg, "joinEUI")
                                    THEN call.arg.v["joinEUI"]
                                    ELSE Get(call.arg.v, "appEUI")

\* C15 as amended: the joinEUI value is used whenever it is true as a Python
\* value (not null, not empty, not zero), else the appEUI value, None when
\* there is no appEUI key.
C15_JoinEUITruthyFirst ==
    Called("extract_join_summary") /\ call.arg.t = "dict" =>
        LET join_eui == Get(call.arg.v, "joinEUI") IN
        /\ "joinEUI" \in DOMAIN ret.value.v
        /\ ret.value.v["joinEUI"] =
             IF join_eui \in { None, Str(<<>>), Integer(0), Float("0.0"), Bool(FALSE),
                               List(<<>>), Dict(EmptyDict) }
             THEN Get(call.arg.v, "appEUI")
             ELSE join_eui

\* Both keys present, the joinEUI value used.
C15_Witness ==
    /\ Called("extract_join_summary")
    /\ HasKey(call.arg, "joinEUI") /\ HasKey(call.arg, "appEUI")
    /\ ret.value.v["joinEUI"] = Str(W("0807060504030201"))
    /\ call.arg.v["appEUI"] = Str(W("70B3D57ED0000001"))

\* An empty joinEUI next to an appEUI: the appEUI value is used.
C15_EmptyFallsBack ==
    /\ Called("extract_join_summary")
    /\ HasKey(call.arg, "joinEUI") /\ call.arg.v["joinEUI"] = Str(<<>>)
    /\ ret.value.v["joinEUI"] = Str(W("70B3D57ED0000001"))

\* The summary has key k with the value of key from of the dict d.
Copied(k, d, from) == k \in DOMAIN ret.value.v /\ ret.value.v[k] = Get(d.v, from)
WellFormedRx(doc) ==
    /\ HasKey(doc, "rxInfo") /\ doc.v["rxInfo"].t = "list"
    /\ Len(doc.v["rxInfo"].v) > 0 /\ doc.v["rxInfo"].v[1].t = "dict"

\* C16: for every document the uplink extraction returns, and whatever is
\* missing or malformed in one group of fields, the fields of the other
\* groups that the document has are in the summary: the frame fields, the
\* transmit info, the data, the signal of the first gateway.
C16_GroupsGuardedIndependently ==
    Called("extract_uplink_summary") /\ call.arg.t = "dict" =>
        /\ \A k \in {"fCnt", "fPort", "devEUI"} :
              HasKey(call.arg, k) => Copied(k, call.arg, k)
        /\ HasKey(call.arg, "txInfo") /\ call.arg.v["txInfo"].t = "dict" =>
              /\ Copied("frequency", call.arg.v["txInfo"], "frequency")
              /\ Copied("dataRate", call.arg.v["txInfo"], "dr")
        /\ HasKey(call.arg, "data") => Copied("data", call.arg, "data")
        /\ WellFormedRx(call.arg) =>
              /\ Copied("rssi", call.arg.v["rxInfo"].v[1], "rssi")
              /\ Copied("snr", call.arg.v["rxInfo"].v[1], "loRaSNR")

\* The document with its receive-info list cut down to the first element.
FirstGatewayOnly(doc) ==
    [doc EXCEPT !.v = [@ EXCEPT !["rxInfo"] = List(<<doc.v["rxInfo"].v[1]>>)]]

\* C17: with a non-empty receive-info list, rssi, snr, latitude and longitude
\* are those of element 0 and the summary is the one of the document without
\* the later elements; with an empty list the extraction returns a summary
\* without rssi and snr.
C17_FirstGatewayOnly ==
    Called("extract_uplink_summary") /\ HasKey(call.arg, "rxInfo")
      /\ call.arg.v["rxInfo"].t = "list" =>
        IF Len(call.arg.v["rxInfo"].v) = 0
        THEN "rssi" \notin DOMAIN ret.value.v /\ "snr" \notin DOMAIN ret.value.v
        ELSE LET first == call.arg.v["rxInfo"].v[1] IN
             /\ ret.value.v = extract_uplink_summary(FirstGatewayOnly(call.arg))
             /\ first.t = "dict" =>
                  /\ Copied("rssi", first, "rssi")
                  /\ Copied("snr", first, "loRaSNR")
                  /\ HasKey(first, "location") /\ first.v["location"].t = "dict" =>
                        /\ Copied("latitude", first.v["location"], "latitude")
                        /\ Copied("longitude", first.v["location"], "longitude")
                  /\ ~HasKey(first, "location") =>
                        /\ "latitude" \notin DOMAIN ret.value.v
                        /\ "longitude" \notin DOMAIN ret.value.v

\* Two gateways heard the frame; the summary carries the first one's signal
\* and position.
C17_Witness ==
    /\ Called("extract_uplink_summary") /\ HasKey(call.arg, "rxInfo")
    /\ call.arg.v["rxInfo"] = List(<<RxTest, RxOther>>)
    /\ ret.value.v["rssi"] = Integer(-85)
    /\ ret.value.v["latitude"] = Float("37.5665")

\* An empty receive-info list: no rssi, the frame fields extracted.
C17_EmptyList ==
    /\ Called("extract_uplink_summary") /\ HasKey(call.arg, "rxInfo")
    /\ call.arg.v["rxInfo"] = List(<<>>)
    /\ "rssi" \notin DOMAIN ret.value.v
    /\ "fCnt" \in DOMAIN ret.value.v /\ ret.value.v["fCnt"] = Integer(42)

(***************************************************************************)
(* Properties of the frame decoder                                         *)
(***************************************************************************)
\* Base64 as RFC 4648 defines it: quads of alphabet characters, the last one
\* possibly ending in one or two "=".
IsBase64(chars) ==
    LET n == Len(chars)
        pad == IF n >= 2 /\ chars[n] = "=" /\ chars[n - 1] = "=" THEN 2
               ELSE IF n >= 1 /\ chars[n] = "=" THEN 1
               ELSE 0
    IN  /\ n % 4 = 0
        /\ \A i \in 1..(n - pad) : IsB64Char(chars[i])

\* C18: the frame decoder returns for every argument.  For a valid base64
\* string it returns hex (two digits a byte), bytes and text and no error; the
\* frame "VEVTVA==" gives hex 54455354, bytes 84 69 83 84 and text TEST.  For
\* every string that is not valid base64 it returns the error marker with the
\* reason and the original string, and no hex, text or bytes.
C18_DecoderMarksInvalidBase64 ==
    /\ call.fn = "_decode_payload_data" /\ ~ret.done => ENABLED do_decode_payload_data
    /\ Called("_decode_payload_data") /\ call.arg.t = "str" =>
         IF IsBase64(call.arg.v)
         THEN /\ DOMAIN ret.value.v = {"hex", "text", "bytes"}
              /\ Len(ret.value.v["hex"].v) = 2 * Len(ret.value.v["bytes"].v)
              /\ call.arg = Str(<<"V", "E", "V", "T", "V", "A", "=", "=">>) =>
                   /\ ret.value.v["hex"] = Str(<<"5", "4", "4", "5", "5", "3", "5", "4">>)
                   /\ ret.value.v["text"] = Str(<<"T", "E", "S", "T">>)
                   /\ ret.value.v["bytes"]
                        = List(<<Integer(84), Integer(69), Integer(83), Integer(84)>>)
         ELSE /\ DOMAIN ret.value.v = {"error", "raw"}
              /\ ret.value.v["raw"] = call.arg

(***************************************************************************)
(* Properties of the record constructors                                   *)
(***************************************************************************)
Constructed ==
    /\ call.fn \in {"UplinkMessage.from_payload_summary",
                     "JoinEvent.from_payload_summary"}
    /\ ret.done

\* The summary key each record field is read from.
UplinkFieldKeys ==
    << <<"dev_eui", "devEUI">>, <<"payload_base64", "data">>,
       <<"payload_size", "data_size">>, <<"frame_count", "fCnt">>,
       <<"f_port", "fPort">>, <<"frequency", "frequency">>,
       <<"data_rate", "dataRate">>, <<"rssi", "rssi">>, <<"snr", "snr">>,
       <<"latitude", "latitude">>, <<"longitude", "longitude">> >>
JoinFieldKeys ==
    << <<"dev_eui", "devEUI">>, <<"join_eui", "joinEUI">>,
       <<"dev_addr", "devAddr">>, <<"frequency", "frequency">>,
       <<"data_rate", "dataRate">>, <<"rssi", "rssi">>, <<"snr", "snr">>,
       <<"latitude", "latitude">>, <<"longitude", "longitude">> >>

AbsentStaysAbsent(record, summary, keys) ==
    \A i \in 1..Len(keys) :
        IF keys[i][2] \in DOMAIN summary
        THEN record[keys[i][1]] = summary[keys[i][2]]
        ELSE record[keys[i][1]] = None

\* C19: a record built from a summary carries a timestamp: the instant of
\* its construction, in the zone UTC+9 whatever the zone of the host.  This
\* holds for every summary, the empty one included.  A field the summary
\* lacks is None in the record, a field it has is copied, and the record has
\* no id yet.
C19_RecordStampedInKst ==
    Constructed =>
      /\ ret.value.timestamp.tzinfo = {KstOffset}
      /\ ret.value.timestamp.wall = now + KstOffset
      /\ ret.value.id = 0
      /\ IF call.fn = "UplinkMessage.from_payload_summary"
         THEN /\ AbsentStaysAbsent(ret.value, call.arg.v, UplinkFieldKeys)
              /\ "decoded_data" \notin DOMAIN call.arg.v =>
                    ret.value.payload_hex = None /\ ret.value.payload_text = None
         ELSE AbsentStaysAbsent(ret.value, call.arg.v, JoinFieldKeys)

\* An uplink record built from the empty summary on a host in UTC, at an
\* instant after the epoch of the model.
C19_Witness ==
    /\ Called("UplinkMessage.from_payload_summary")
    /\ call.arg = Dict(EmptyDict)
    /\ utc_offset = 0 /\ now > 0
    /\ ret.value.timestamp = [wall |-> now + KstOffset, tzinfo |-> {KstOffset}]
    /\ ret.value.rssi = None /\ ret.value.snr = None

\* A join record built from the empty summary.
C19_JoinWitness ==
    /\ Called("JoinEvent.from_payload_summary")
    /\ call.arg = Dict(EmptyDict)
    /\ ret.value.timestamp.tzinfo = {KstOffset}
    /\ ret.value.dev_eui = None

(***************************************************************************)
(* Properties of the append log                                            *)
(***************************************************************************)
\* Newline-delimited records: a record, its newline, a record, its newline.
NewlineDelimited(content) ==
    /\ Len(content) % 2 = 0
    /\ \A i \in 1..Len(content) :
         content[i].t = (IF i % 2 = 1 THEN "rec" ELSE "nl")

\* C20: after any appends, failed ones included, every line of every daily
\* log file is one complete record; no append leaves a part of a record for
\* the next record to land behind on the same line.
C20_LogIsNewlineDelimited ==
    \A name \in DOMAIN files : NewlineDelimited(files[name])

(***************************************************************************)
(* Properties of the processor                                             *)
(***************************************************************************)
RECURSIVE SumLines(_, _)
SumLines(fs, names) ==
    IF names = {} THEN 0
    ELSE LET name == CHOOSE n \in names : TRUE
         IN  CompleteLines(fs[name]) + SumLines(fs, names \ {name})

\* The complete lines of all log files together.
TotalLines(fs) == SumLines(fs, DOMAIN fs)

\* What a call that has returned did to the counters of its kind and to the
\* store, when the processor has no store.
LogOnlyCounters ==
    /\ stats[Received(cur.route)] = pre.stats[Received(cur.route)] + 1
    /\ stats[Processed(cur.route)] = pre.stats[Processed(cur.route)] + 1
    /\ stats["sqlite_saves"] = 0
    /\ stats["errors"] = pre.stats["errors"]
    /\ uplink_messages = <<>> /\ join_events = <<>>

\* C21 as stated: without a store, every uplink or join handed to the
\* processor counts as received and as processed, appends one line to the
\* log, leaves sqlite_saves at 0 and counts no error.
C21_LogOnlyAppendsOneLine ==
    (~db_enabled /\ Returned) =>
        /\ LogOnlyCounters
        /\ TotalLines(files) = TotalLines(pre.files) + 1

\* C21 amended: without a store, every uplink or join handed to the
\* processor with a summary whose info lines can be logged (every summary
\* of the extractors) counts as received and as processed, leaves
\* sqlite_saves at 0 and the tables empty, counts no error, and has its
\* append attempted once; the log gains one complete line when the append
\* succeeds and none when it fails.
C21_LogOnlyAppendAttempted ==
    (~db_enabled /\ Returned /\ ~log_info_raises(cur.route, cur.summary)) =>
        /\ LogOnlyCounters
        /\ result.store = "skipped"
        /\ result.log \in AppendOutcomes /\ Len(handed) = 1
        /\ TotalLines(files) =
               TotalLines(pre.files) + (IF result.log = "ok" THEN 1 ELSE 0)

\* Without a store: a join whose append succeeded after an uplink whose
\* append failed.
C21_Witness ==
    /\ ~db_enabled /\ Returned /\ cur.route = "join" /\ result.log = "ok"
    /\ stats["messages_processed"] = 1 /\ stats["joins_processed"] = 1
    /\ TotalLines(files) = 1

(***************************************************************************)
(* Properties of the store's queries                                       *)
(***************************************************************************)
\* The result holds the stored row of this id, field for field.
IsStoredRow(message) ==
    \E i \in 1..Len(uplink_messages) : uplink_messages[i] = message

\* Timestamp a is later than timestamp b; both are naive or both are in the
\* same zone.
Later(a, b) == a.tzinfo = b.tzinfo /\ a.wall > b.wall

\* C22: get_device_messages(device, limit) returns stored uplink records of
\* that device only, each once, at most limit of them, newest first: of two
\* records of the device the one with the later timestamp comes first, and
\* no record is left out for an older one.
C22_DeviceMessagesNewestFirst ==
    Called("get_device_messages") =>
        LET answer == ret.value IN
        /\ Len(answer) <= call.arg.limit
        /\ \A i \in 1..Len(answer) :
             /\ answer[i].device_id = call.arg.device_id
             /\ IsStoredRow(answer[i])
        /\ \A i, j \in 1..Len(answer) :
             i < j => /\ answer[i].id # answer[j].id
                      /\ ~Later(answer[j].timestamp, answer[i].timestamp)
        /\ \A i \in 1..Len(answer), m \in 1..Len(uplink_messages) :
             (/\ uplink_messages[m].device_id = call.arg.device_id
              /\ Later(uplink_messages[m].timestamp, answer[i].timestamp))
             => \E j \in 1..Len(answer) : answer[j].id = uplink_messages[m].id

\* Two records of one device, the later one inserted last, both returned
\* with the later one first; a record of the other device is stored too.
C22_Witness ==
    /\ Called("get_device_messages") /\ Len(ret.value) = 2
    /\ Len(uplink_messages) = 3
    /\ ret.value[1].id > ret.value[2].id
    /\ Later(ret.value[1].timestamp, ret.value[2].timestamp)

\* A limit below the number of the device's records.
C22_Limited ==
    /\ Called("get_device_messages") /\ Len(ret.value) = 1 /\ call.arg.limit = 1
    /\ Cardinality({ i \in 1..Len(uplink_messages) :
                       uplink_messages[i].device_id = call.arg.device_id }) = 3

\* The answer holds the record of this row: its id and the four fields the
\* tests compare.
Retrieved(row, answer) ==
    \E j \in 1..Len(answer) :
        /\ answer[j].id = row.id
        /\ answer[j].application_id = row.application_id
        /\ answer[j].device_id = row.device_id
        /\ answer[j].payload_text = row.payload_text
        /\ answer[j].frame_count = row.frame_count

\* insert_uplink_message returns None and leaves the table as it was, or
\* returns the id of the one row it added, the message with that id.
InsertReturnsIdentity ==
    Called("insert_uplink_message") =>
        IF ret.value = None
        THEN uplink_messages = pre.uplink_messages
        ELSE /\ ret.value.t = "int" /\ ret.value.v > 0
             /\ uplink_messages =
                    Append(pre.uplink_messages, [call.arg EXCEPT !.id = ret.value.v])
             /\ \A i \in 1..Len(pre.uplink_messages) :
                    pre.uplink_messages[i].id # ret.value.v

\* C23 as stated: every record whose insert returned an identity is in the
\* answer of get_recent_messages, with that identity and the same
\* application id, device id, payload text and frame count; a failed insert
\* returns None and adds no row.
C23_InsertQueryRoundTrip ==
    /\ InsertReturnsIdentity
    /\ Called("get_recent_messages") =>
          \A i \in 1..Len(uplink_messages) : Retrieved(uplink_messages[i], ret.value)

\* C23 amended: the same, for a get_recent_messages that does not fail and
\* whose limit is at least the number of rows; with a smaller limit the
\* answer holds limit of the stored records, each with its identity and
\* fields, and a query that fails answers with the empty list.
C23_RoundTripWithinLimit ==
    /\ InsertReturnsIdentity
    /\ Called("get_recent_messages") =>
          LET answer == ret.value
              n == Len(uplink_messages)
          IN
          /\ \A j \in 1..Len(answer) :
                \E i \in 1..n : /\ uplink_messages[i].id = answer[j].id
                                 /\ Retrieved(uplink_messages[i], <<answer[j]>>)
          /\ \A i, j \in 1..Len(answer) : i < j => answer[i].id # answer[j].id
          /\ IF ret.logged = "error" THEN answer = <<>>
             ELSE Len(answer) = (IF call.arg.limit < n THEN call.arg.limit ELSE n)
          /\ (ret.logged # "error" /\ call.arg.limit >= n) =>
                \A i \in 1..n : Retrieved(uplink_messages[i], answer)

\* Two records inserted, one of them without text and frame count, and both
\* retrieved.
C23_Witness ==
    /\ Called("get_recent_messages") /\ Len(ret.value) = 2
    /\ Len(uplink_messages) = 2 /\ call.arg.limit >= 2
    /\ \E j \in 1..2 : ret.value[j].payload_text = None /\ ret.value[j].id = 2

\* An insert that failed on a table that holds a row.
C23_FailedInsert ==
    /\ Called("insert_uplink_message") /\ ret.value = None
    /\ Len(uplink_messages) = 1 /\ uplink_messages = pre.uplink_messages

(***************************************************************************)
(* Properties of the client's life cycle                                   *)
(***************************************************************************)
ConnectReturned == pc = "idle" /\ client.returned # "none"
Attempts == Len(client.outcomes)
Failed(outcome) == outcome # "ok"

\* What holds of every connect(): never more than max_retries attempts, every
\* attempt before the last one failed, the call goes on while it has not
\* returned, and it returns True exactly after an attempt that succeeded.
ConnectBounded ==
    /\ Attempts <= client.max_retries
    /\ \A i \in 1..(Attempts - 1) : Failed(client.outcomes[i])
    /\ pc = "connect" => /\ client.returned = "none" /\ Attempts < client.max_retries
                         /\ ENABLED connect_attempt
    /\ ConnectReturned =>
         (client.returned = "True"
            <=> Attempts >= 1 /\ client.outcomes[Attempts] = "ok")

\* C24 as stated: connect(max_retries) makes at most max_retries attempts,
\* returns True at the first success (after one attempt if the first
\* succeeds), and when every attempt failed returns False after exactly
\* max_retries attempts.
C24_ConnectRetriesToTheEnd ==
    /\ ConnectBounded
    /\ (ConnectReturned /\ client.returned = "False") =>
         Attempts = client.max_retries

\* C24 amended: the same bound and the same True; False is returned after
\* exactly max_retries attempts when all of them failed with an OSError, and
\* at once after an attempt that failed with any other exception.
C24_ConnectRetriesOSErrors ==
    /\ ConnectBounded
    /\ (ConnectReturned /\ client.returned = "False") =>
         IF \A i \in 1..Attempts : client.outcomes[i] = "os_error"
         THEN Attempts = client.max_retries
         ELSE client.outcomes[Attempts] = "error"

\* Two refused attempts and a third that succeeds, of three allowed.
C24_Witness ==
    /\ ConnectReturned /\ client.returned = "True" /\ client.max_retries = 3
    /\ client.outcomes = <<"os_error", "os_error", "ok">>

\* Three refused attempts of three.
C24_AllFailed ==
    /\ ConnectReturned /\ client.returned = "False"
    /\ client.outcomes = <<"os_error", "os_error", "os_error">>

LegacyKind ==
    CASE cur.route = "up" -> Str(W("up"))
      [] cur.route = "join" -> Str(W("join"))
      [] OTHER -> Str(event_type(Parts))

\* C25: on_message and parse_topic read a topic alike.  A topic one of them
\* rejects the other rejects too, and for a topic they accept they derive
\* the same application id, device id and event kind.
C25_OneTopicGrammar ==
    Dispatched =>
        LET parsed == parse_topic(Str(cur.topic)) IN
        /\ cur.route = "bad_topic" <=> parsed = None
        /\ cur.route \in {"up", "join", "unknown"} /\ parsed # None =>
              /\ parsed.v[1] = Str(cur.application_id)
              /\ parsed.v[2] = Str(cur.device_id)
              /\ parsed.v[3] = LegacyKind

(***************************************************************************)
(* Properties of the counters taken together                               *)
(***************************************************************************)
\* Messages counted as received and not as processed, over both kinds.
Outstanding(s) ==
    (s["messages_received"] - s["messages_processed"])
    + (s["joins_received"] - s["joins_processed"])

\* The call that has returned was counted as processed and not as an error.
CountedProcessed ==
    /\ stats[Processed(cur.route)] = pre.stats[Processed(cur.route)] + 1
    /\ stats["errors"] = pre.stats["errors"]

\* The call that has returned was counted as an error and not as processed.
CountedError ==
    /\ stats[Processed(cur.route)] = pre.stats[Processed(cur.route)]
    /\ stats["errors"] = pre.stats["errors"] + 1

\* C26: processed never exceeds received, for uplinks and for joins; between
\* calls the messages received and not processed are at most the errors
\* counted; and a call that has returned was counted as received once and
\* then either as processed or as an error, not both and not neither.
C26_ReceivedIsProcessedOrError ==
    /\ stats["messages_processed"] <= stats["messages_received"]
    /\ stats["joins_processed"] <= stats["joins_received"]
    /\ (pc = "idle" => Outstanding(stats) <= stats["errors"])
    /\ (Returned /\ Handled) =>
          /\ stats[Received(cur.route)] = pre.stats[Received(cur.route)] + 1
          /\ (CountedProcessed \/ CountedError)
          /\ ~(CountedProcessed /\ CountedError)

\* An uplink whose info lines could not be logged has returned after an
\* uplink that was processed: two received, one processed, one error.
C26_Witness ==
    /\ Returned /\ cur.route = "up" /\ CountedError
    /\ stats["messages_received"] = 2 /\ stats["messages_processed"] = 1
    /\ stats["errors"] = 1 /\ Outstanding(stats) = 1

\* A join has returned processed while an earlier uplink stays an error.
C26_ProcessedWitness ==
    /\ Returned /\ cur.route = "join" /\ CountedProcessed
    /\ stats["errors"] = 1 /\ Outstanding(stats) = 1

\* C27: the per-sink counters agree with the sinks.  json_saves is the
\* number of complete lines in the log files and sqlite_saves the number of
\* rows in the two tables; a write that failed left its counter as it was
\* and a write that succeeded raised it by one.
C27_SinkCountersAgree ==
    /\ stats["json_saves"] = TotalLines(files)
    /\ stats["sqlite_saves"] = Len(uplink_messages) + Len(join_events)
    /\ (Handled /\ pc \in {"finish", "idle"} /\ result.log # "none") =>
          stats["json_saves"] - pre.stats["json_saves"]
            = (IF result.log = "ok" THEN 1 ELSE 0)
    /\ (Handled /\ pc \in {"append", "finish", "idle"} /\ result.store # "none") =>
          stats["sqlite_saves"] - pre.stats["sqlite_saves"]
            = (IF result.store = "ok" THEN 1 ELSE 0)

(***************************************************************************)
(* Properties of the timestamps of one message                             *)
(***************************************************************************)
\* Every record of the file carries a timestamp of the day in the file's name
\* (both in UTC+9).
DatedAsNamed(fs, name) ==
    \A i \in 1..Len(fs[name]) :
        fs[name][i].t \in {"rec", "part"} =>
            DayOf(fs[name][i].data.timestamp.wall) = name.day

\* The row the call stored and the record it handed to the log carry the
\* same timestamp.
StoredAsLogged ==
    (Handled /\ result.store = "ok" /\ Len(handed) = 1) =>
        Table[Len(Table)].timestamp = handed[1].timestamp

\* C28: the day of the timestamp inside a log line, in UTC+9, is the day in
\* the name of the file the line is in, also when the clock passes midnight
\* between the start of the call and the append; and the row stored for a
\* message carries the instant its log line carries.
C28_OneInstantPerMessage ==
    /\ \A name \in DOMAIN files : DatedAsNamed(files, name)
    /\ StoredAsLogged

(***************************************************************************)
(* Properties of the join table                                            *)
(***************************************************************************)
\* The insert of this call failed though the store could have taken the
\* record: a failure of the store's file or connection.
StoreBroke ==
    /\ result.store = "fail"
    /\ "ok" \in InsertOutcomes(cur.route, StoreRecord(cur, now))

\* The complete lines of the join log files.
JoinLines(fs) ==
    SumLines(fs, {name \in DOMAIN fs : name.prefix = "join_events"})

\* C29: with a store that is enabled and does not break, a join counted as
\* processed has added exactly one row to join_events, whether or not its
\* document had a devEUI; and when its append succeeded too, the table and
\* the log have each gained that one join.
C29_EveryJoinIsStored ==
    (db_enabled /\ Returned /\ cur.route = "join" /\ CountedProcessed
       /\ ~StoreBroke) =>
        /\ Len(join_events) = Len(pre.join_events) + 1
        /\ join_events[Len(join_events)].dev_eui = Get(cur.summary, "devEUI")
        /\ (result.log = "ok" =>
               Len(join_events) - Len(pre.join_events)
                 = JoinLines(files) - JoinLines(pre.files))
====
